---- MODULE Spec2Model ----
(***************************************************************************)
(* The per-frame animation layer of the sunflower scene:                   *)
(*   usePartnerLocation  (distance / bearing to the partner),              *)
(*   useDeviceOrientation (compass heading),                               *)
(*   useHeartbeat        (distance-driven pulse scale),                    *)
(*   useFlowerRotation   (damped yaw toward the relative bearing),         *)
(* and the flower they animate:                                            *)
(*   deviceDetect        (the capability flags),                           *)
(*   Sunflower           (construction of petals, sepals, disc, stem,      *)
(*                        hairs and leaves, and their frame callbacks).    *)
(*                                                                         *)
(* Numbers.  JavaScript doubles are modelled in fixed point:               *)
(*   angles, sines, beats, lerp factors : units of 1/S     (S  = 10^4)     *)
(*   the heartbeat scale, intensity     : units of 1/SS    (SS = 10^6)     *)
(*   time (delta, timeRef)              : ticks of 1/TPS s (TPS = 240)     *)
(*   distance                           : whole metres                     *)
(*   BPM                                : thousandths of a beat per minute *)
(*   heartbeat phase                    : 1/(TPS*1000) of a beat cycle     *)
(* Every product stays below 2^31.  null is Null, a value outside every    *)
(* numeric domain of the model.                                            *)
(***************************************************************************)
EXTENDS Integers, Sequences, FiniteSets, TLC

Null == -1

S   == 10^4
SS  == 10^6
TPS == 240

\* pi and its multiples in units of 1/S
Pi     == 31416
TwoPi  == 2 * Pi
HalfPi == Pi \div 2

Abs(x) == IF x < 0 THEN -x ELSE x
Min(a, b) == IF a < b THEN a ELSE b
Max(a, b) == IF a > b THEN a ELSE b

\* a / b rounded to the nearest integer (b > 0), as a double operation
\* rounds to the nearest representable value
RoundDiv(a, b) == (2 * a + b) \div (2 * b)

(***************************************************************************)
(* Math.sin, Math.pow on the fixed-point grid                              *)
(***************************************************************************)

\* sin x for 0 <= x <= pi/2 (units of 1/S): the Taylor series to x^9
SinQ(x) ==
    LET x2 == RoundDiv(x * x, S)
        t3 == RoundDiv(x * x2, 6 * S)
        t5 == RoundDiv(t3 * x2, 20 * S)
        t7 == RoundDiv(t5 * x2, 42 * S)
        t9 == RoundDiv(t7 * x2, 72 * S)
    IN  Min(S, x - t3 + t5 - t7 + t9)

\* Math.sin(x) for any x >= 0 (units of 1/S), by range reduction
Sin(x) ==
    LET r == x % TwoPi
    IN  IF r <= HalfPi THEN SinQ(r)
        ELSE IF r <= Pi THEN SinQ(Pi - r)
        ELSE IF r <= Pi + HalfPi THEN -SinQ(r - Pi)
        ELSE -SinQ(TwoPi - r)

Sq(a) == RoundDiv(a * a, S)
\* Math.pow(a, 4) and Math.pow(a, 8) for 0 <= a <= 1
Pow4(a) == Sq(Sq(a))
Pow8(a) == Sq(Pow4(a))

(***************************************************************************)
(* Bounds of the model                                                     *)
(***************************************************************************)

\* timeRef is followed up to MaxTime ticks
MaxTime == 120
\* consecutive idle frames are counted up to SettleFrames
SettleFrames == 100

\* frame deltas of the heartbeat runs: 1/60 s and 1/30 s
HDeltas == {4, 8}

\* positions: metres east of a reference point on the equator
SelfLons    == {0, 500}
PartnerLons == {0, 500, 1000, 1500, 2000}
Lats        == {0}

VARIABLES
    selfLat, selfLon,        \* useState(null): own GPS position
    partnerLat, partnerLon,  \* useState(null): partner position from presence
    scaleRef,                \* useHeartbeat: scaleRef.current (units 1/SS)
    timeRef,                 \* useHeartbeat: timeRef.current (ticks)
    mode,                    \* branch the last heartbeat frame took
    phase,                   \* phase of the last pulsing frame (1/(TPS*1000) cycle)
    idleRun,                 \* consecutive idle frames so far (capped)
    heading,                 \* useDeviceOrientation: heading (degrees)
    groupAttached,           \* useFlowerRotation: groupRef.current is set
    currentRotation,         \* useFlowerRotation: currentRotation.current (1/S rad)
    rotationY,               \* groupRef.current.rotation.y (1/S rad)
    elapsed,                 \* simulated time of the rotation frames (ticks)
    fixedDelta,              \* the frame delta of a fixed-timestep run (ticks)
    halfRotation,            \* a second tracker, run at half the frame delta
    argA, argB, result,      \* arguments and result of a single call
    isMobile, isLowEnd,      \* deviceDetect: the exported capability flags
    petals,                  \* Sunflower: the petal meshes, in petalRings order
    sepals,                  \* Sunflower: the sepal meshes
    disc,                    \* CenterDisc: the disc group
    stem,                    \* Stem: the stem mesh
    hairs,                   \* Stem: the trichome hair descriptors
    leaves,                  \* Sunflower: the leaf meshes
    clock,                   \* state.clock.elapsedTime (ticks)
    geometryBuilds,          \* geometries constructed so far
    previous,                \* what the previous mount of the flower built
    isConnected,             \* usePartnerLocation: isConnected
    hasPartner,              \* usePartnerLocation: hasPartner
    selfLatRef, selfLonRef,  \* usePartnerLocation: selfLatRef/selfLonRef.current
    effectsPending,          \* a render has committed, its effects have not run
    effectDeps,              \* [selfLat, selfLon, isConnected] of the last effect run
    tracked,                 \* the last payload passed to channel.track
    trackLog,                \* every payload passed to channel.track
    subscribedSeen,          \* the channel has reported SUBSCRIBED
    presenceState,           \* channel.presenceState() at the last sync
    visible,                 \* TypographyOverlay: visible
    timerRef,                \* TypographyOverlay: timerRef.current (a timer id)
    timers,                  \* the pending setTimeout timers
    now,                     \* time since the overlay mounted (ms)
    lastPointer,             \* time of the most recent pointerdown (ms)
    timerCount,              \* timer ids handed out so far
    orientMounted,           \* the effect of useDeviceOrientation has run
    needsPermission,         \* DeviceOrientationEvent.requestPermission exists
    requestHook,             \* window.__requestOrientationPermission is set
    permission,              \* state of the permission request
    listenerAttached,        \* a deviceorientation listener is registered
    requestCount,            \* calls of DeviceOrientationEvent.requestPermission
    frameTimes,              \* PerformanceMonitor: frameTimesRef.current (ms)
    lowFpsCount,             \* PerformanceMonitor: lowFpsCountRef.current
    pixelRatio,              \* gl.getPixelRatio(), in hundredths
    perfNow,                 \* performance.now() of the last frame (ms)
    frameInterval,           \* the time between frames (ms)
    intervalChanged,         \* the frame interval has changed during the run
    perfFrames               \* frames PerformanceMonitor has seen

locVars   == <<selfLat, selfLon, partnerLat, partnerLon>>
heartVars == <<scaleRef, timeRef, mode, phase, idleRun>>
rotVars   == <<heading, groupAttached, currentRotation, rotationY,
               elapsed, fixedDelta, halfRotation>>
callVars  == <<argA, argB, result>>
flowerVars == <<isMobile, isLowEnd, petals, sepals, disc, stem, hairs, leaves,
                clock, geometryBuilds, previous>>

presVars == <<isConnected, hasPartner, selfLatRef, selfLonRef, effectsPending,
              effectDeps, tracked, trackLog, subscribedSeen, presenceState>>
overlayVars == <<visible, timerRef, timers, now, lastPointer, timerCount>>
orientVars == <<orientMounted, needsPermission, requestHook, permission,
                listenerAttached, requestCount>>
perfVars == <<frameTimes, lowFpsCount, pixelRatio, perfNow, frameInterval,
              intervalChanged, perfFrames>>
appVars == <<presVars, overlayVars, orientVars, perfVars>>

vars == <<locVars, heartVars, rotVars, callVars, flowerVars, appVars>>

(***************************************************************************)
(* usePartnerLocation: distance and bearing                                *)
(***************************************************************************)

\* geolib getDistance / getGreatCircleBearing on the positions above
GetDistance(aLat, aLon, bLat, bLon) == Abs(bLon - aLon) + Abs(bLat - aLat)
GetGreatCircleBearing(aLat, aLon, bLat, bLon) ==
    IF bLon > aLon THEN 90 ELSE IF bLon < aLon THEN 270
    ELSE IF bLat < aLat THEN 180 ELSE 0

\* mutant: only the own position is tested
hasOwnPosition ==
    selfLat # Null /\ selfLon # Null

hasBothPositions ==
    selfLat # Null /\ selfLon # Null /\ partnerLat # Null /\ partnerLon # Null

distance ==
    IF hasBothPositions
    THEN GetDistance(selfLat, selfLon, partnerLat, partnerLon)
    ELSE Null

bearing ==
    IF hasBothPositions
    THEN GetGreatCircleBearing(selfLat, selfLon, partnerLat, partnerLon)
    ELSE 0

\* watchPosition success callback
GeoUpdate(lat, lon) ==
    /\ selfLat' = lat
    /\ selfLon' = lon
    /\ UNCHANGED <<partnerLat, partnerLon>>

\* presence 'sync' handler, as far as the partner position goes: a partner
\* entry with non-null lat and lon is stored
PartnerSync(lat, lon) ==
    /\ lat # Null /\ lon # Null
    /\ partnerLat' = lat
    /\ partnerLon' = lon
    /\ UNCHANGED <<selfLat, selfLon>>

(***************************************************************************)
(* useHeartbeat                                                            *)
(***************************************************************************)

One == SS

\* JavaScript ToNumber on a distance: null converts to 0
ToNumber(d) == IF d = Null THEN 0 ELSE d

\* distance > 1000
TooFar(d) == ToNumber(d) > 1000

\* t = 1 - Math.min(distance / 1000, 1), in thousandths
TFactor(d) == 1000 - Min(ToNumber(d), 1000)

\* mutant: the BPM range halved, 60 + t * 30
BpmNarrow(d) == 60000 + TFactor(d) * 30

\* bpm = 60 + t * 60, in thousandths of a beat per minute
Bpm(d) == 60000 + TFactor(d) * 60

\* frequency = bpm / 60, in thousandths of a beat per second
Frequency(d) == Bpm(d) \div 60

\* intensity = 0.03 + t * 0.05, in units of 1/SS
Intensity(d) == 30000 + TFactor(d) * 50

Cycle == TPS * 1000

\* (timeRef * frequency * 2 pi) % (2 pi), as a fraction of a cycle
PhaseOf(time, d) == (time * Frequency(d)) % Cycle

\* the phase in radians (units of 1/S): cycle fraction * 2 pi
Radians(ph) == RoundDiv(ph * 1309, 5000)

\* beat1 = Math.pow(Math.max(0, Math.sin(phase)), 4)
Beat1(ph) == Pow4(Max(0, Sin(Radians(ph))))

\* mutant: the second beat at full height
Beat2Full(ph) == Pow8(Max(0, Sin(Radians(ph) + 6000)))

\* beat2 = Math.pow(Math.max(0, Math.sin(phase + 0.6)), 8) * 0.5
Beat2(ph) == RoundDiv(Pow8(Max(0, Sin(Radians(ph) + 6000))), 2)

\* 1 + (beat1 + beat2) * intensity
PulseScale(ph, d) == One + RoundDiv((Beat1(ph) + Beat2(ph)) * Intensity(d), S)

\* mutant: the relaxation rate 0.04 in place of 0.05
RelaxSlow(scale) == scale + RoundDiv((One - scale) * 4, 100)

\* scale + (1 - scale) * 0.05
Relax(scale) == scale + RoundDiv((One - scale) * 5, 100)

\* the useFrame callback of useHeartbeat
HeartFrame(delta) ==
    IF TooFar(distance)
    THEN /\ scaleRef' = Relax(scaleRef)
         /\ mode' = "Idle"
         /\ idleRun' = Min(idleRun + 1, SettleFrames)
         /\ UNCHANGED <<timeRef, phase>>
    ELSE /\ timeRef + delta <= MaxTime
         /\ timeRef' = timeRef + delta
         /\ phase' = PhaseOf(timeRef', distance)
         /\ scaleRef' = PulseScale(phase', distance)
         /\ mode' = "Pulsing"
         /\ idleRun' = 0

\* Petal: const s = heartbeatScale.current || 1
PetalS(scale) == IF scale = 0 THEN One ELSE scale

\* usePartnerLocation at mount: no position known
LocInit ==
    /\ selfLat = Null /\ selfLon = Null
    /\ partnerLat = Null /\ partnerLon = Null

\* useHeartbeat at mount
HeartInit ==
    /\ scaleRef = One
    /\ timeRef = 0
    /\ mode = "none"
    /\ phase = 0
    /\ idleRun = 0

\* useDeviceOrientation and useFlowerRotation at mount
RotInit ==
    /\ heading = 0
    /\ groupAttached = FALSE
    /\ currentRotation = 0
    /\ rotationY = 0
    /\ elapsed = 0
    /\ fixedDelta = 0
    /\ halfRotation = 0

CallInit == argA = 0 /\ argB = 0 /\ result = <<>>

\* the flower before <Sunflower/> is mounted, on a desktop device
FlowerInit ==
    /\ isMobile = FALSE /\ isLowEnd = FALSE
    /\ petals = <<>> /\ sepals = <<>> /\ leaves = <<>> /\ hairs = <<>>
    /\ disc = <<>> /\ stem = <<>>
    /\ clock = 0
    /\ geometryBuilds = 0
    /\ previous = <<>>

\* usePartnerLocation's presence state at mount, before any effect
PresInit ==
    /\ isConnected = FALSE /\ hasPartner = FALSE
    /\ selfLatRef = Null /\ selfLonRef = Null
    /\ effectsPending = FALSE
    /\ effectDeps = << Null, Null, FALSE >>
    /\ tracked = << >> /\ trackLog = {}
    /\ subscribedSeen = FALSE
    /\ presenceState = << >>

\* TypographyOverlay as rendered, before its effect
OverlayInit ==
    /\ visible = TRUE
    /\ timerRef = Null /\ timers = {}
    /\ now = 0 /\ lastPointer = Null /\ timerCount = 0

\* useDeviceOrientation as rendered, before its effect
OrientInit ==
    /\ orientMounted = FALSE /\ needsPermission = FALSE
    /\ requestHook = FALSE /\ permission = "notAsked"
    /\ listenerAttached = FALSE /\ requestCount = 0

\* PerformanceMonitor at mount, on a display of pixel ratio 1
PerfInit ==
    /\ frameTimes = << >> /\ lowFpsCount = 0
    /\ pixelRatio = 100
    /\ perfNow = 0 /\ frameInterval = 0 /\ intervalChanged = FALSE
    /\ perfFrames = 0

AppInit == PresInit /\ OverlayInit /\ OrientInit /\ PerfInit

Init == LocInit /\ HeartInit /\ RotInit /\ CallInit /\ FlowerInit /\ AppInit

HeartGeo == \E lat \in Lats, lon \in SelfLons :
    GeoUpdate(lat, lon) /\ UNCHANGED <<heartVars, rotVars, callVars, flowerVars, appVars>>

HeartSync == \E lat \in Lats, lon \in PartnerLons :
    PartnerSync(lat, lon) /\ UNCHANGED <<heartVars, rotVars, callVars, flowerVars, appVars>>

HeartTick == \E delta \in HDeltas :
    HeartFrame(delta) /\ UNCHANGED <<locVars, rotVars, callVars, flowerVars, appVars>>

Next == HeartGeo \/ HeartSync \/ HeartTick

Spec == Init /\ [][Next]_vars

(***************************************************************************)
(* Claims about the heartbeat (checked under Spec)                         *)
(***************************************************************************)

\* C1: while the distance is unknown (null) the heartbeat does not pulse:
\* no frame takes the pulsing branch and the factor the petals apply is the
\* neutral 1 (the scale starts at 1 and relaxing from 1 leaves 1).
C1_UnknownDistanceNeutral ==
    distance = Null => (mode # "Pulsing" /\ PetalS(scaleRef) = One)

\* C3: the branch a frame takes is decided by the distance alone: Pulsing
\* exactly when the distance is known and <= 1000 m, Idle otherwise.
C3_ModeByDistance ==
    [][HeartTick =>
         IF distance # Null /\ distance <= 1000
         THEN mode' = "Pulsing" ELSE mode' = "Idle"]_vars

\* the largest change of the pulse scale one frame of delta ticks makes at
\* distance d: the waveform beat1 + beat2 has slope below 2.2 per radian
\* (4 sin^3 cos <= 1.30, 4 sin^7 cos <= 0.89), times the phase advance in
\* radians, times the intensity
PulseStepBound(d, delta) ==
    RoundDiv(RoundDiv(Radians(delta * Frequency(d)) * 22, 10) * Intensity(d), S)

\* the largest change one idle frame makes: 0.05 of the largest gap 0.12
IdleStepBound == RoundDiv(12 * SS * 5, 100 * 100)

\* C6: on the first frame after the distance crossed 1000 m, in either
\* direction, the scale changes by no more than a frame within one mode
\* changes it.
C6_ContinuousAcrossThreshold ==
    [][\A delta \in HDeltas :
         (HeartFrame(delta) /\ UNCHANGED locVars) =>
           /\ (mode = "Idle" /\ mode' = "Pulsing" /\ distance # Null) =>
                Abs(scaleRef' - scaleRef) <= PulseStepBound(distance, delta)
           /\ (mode = "Pulsing" /\ mode' = "Idle") =>
                Abs(scaleRef' - scaleRef) <= IdleStepBound]_vars

\* C7: a pulsing frame advances the phase of the previous pulsing frame by
\* frequency * delta of a cycle, with the frequency of this frame's distance.
C7_PhaseAccumulates ==
    [][\A delta \in HDeltas :
         (HeartFrame(delta) /\ UNCHANGED locVars /\ mode' = "Pulsing") =>
           phase' = (phase + delta * Frequency(distance)) % Cycle]_vars

\* C8: an idle frame shrinks the gap scale - 1 to 0.95 of it (to the rounding
\* of the grid) without crossing 1, and after SettleFrames consecutive idle
\* frames the scale is within 0.001 of 1.
C8_IdleSettles ==
    /\ [](idleRun >= SettleFrames => Abs(scaleRef - One) * 1000 <= SS)
    /\ [][(HeartTick /\ mode' = "Idle") =>
            LET g  == scaleRef - One
                g2 == scaleRef' - One
            IN  /\ Abs(100 * g2 - 95 * g) <= 50
                /\ (g >= 0 => g2 >= 0)
                /\ (g <= 0 => g2 <= 0)
                /\ Abs(g2) <= Abs(g)]_vars

\* C8 witness: SettleFrames idle frames ran after a pulse left the scale
\* above 1
C8_Witness ==
    idleRun >= SettleFrames /\ timeRef > 0 /\ scaleRef > One /\ mode = "Idle"

(***************************************************************************)
(* useDeviceOrientation: the heading                                       *)
(***************************************************************************)

\* event.webkitCompassHeading (Null: not provided) and event.alpha
\* (Null: no reading) of the modelled deviceorientation events
CompassHeadings == {Null, 0, 90, 180, 270}
Alphas          == {Null, 0, 90, 270}

\* handleOrientation:
\* compassHeading = event.webkitCompassHeading ?? (360 - (event.alpha || 0))
HandleOrientation(webkitCompassHeading, alpha) ==
    heading' = IF webkitCompassHeading # Null
               THEN webkitCompassHeading
               ELSE 360 - (IF alpha = Null THEN 0 ELSE alpha)

(***************************************************************************)
(* useFlowerRotation                                                       *)
(***************************************************************************)

\* the rotation runs are followed for MaxRotTime ticks
MaxRotTime == 16
\* frame deltas of the rotation runs: 1/60 s and 1/30 s
RDeltas == {4, 8}

\* JavaScript a % n: the remainder takes the sign of the dividend
JSRem(a, n) == IF a >= 0 THEN a % n ELSE -((-a) % n)

\* mutant: the + 360 that keeps the dividend non-negative is dropped
RelativeAngleNoWrap(targetBearing, deviceHeading) ==
    RoundDiv(JSRem(targetBearing - deviceHeading, 360) * Pi, 180)

\* ((targetBearing - deviceHeading + 360) % 360) * (Math.PI / 180)
RelativeAngle(targetBearing, deviceHeading) ==
    RoundDiv(JSRem(targetBearing - deviceHeading + 360, 360) * Pi, 180)

\* Math.pow(0.001, delta) for delta = 0 .. 8 ticks, rounded to 1/S
Pow001(delta) == <<10000, 9716, 9441, 9173, 8913, 8660, 8414, 8175, 7943>>[delta + 1]

\* mutant: a tenth of the damping
DampingWeak(delta) == RoundDiv(S - Pow001(delta), 10)

\* dampingFactor = 1 - Math.pow(0.001, delta)
DampingFactor(delta) == S - Pow001(delta)

\* THREE.MathUtils.lerp(x, y, t) = (1 - t) * x + t * y
Lerp(x, y, t) == RoundDiv((S - t) * x + t * y, S)

\* mutant: the factor 0.8 is applied as 8
SmoothOvershoot(current, relativeAngle, delta) ==
    Lerp(current, relativeAngle, DampingFactor(delta) * 8)

\* one frame of smoothing: lerp(current, relativeAngle, dampingFactor * 0.8)
Smooth(current, relativeAngle, delta) ==
    Lerp(current, relativeAngle, RoundDiv(DampingFactor(delta) * 8, 10))

\* the useFrame callback of useFlowerRotation(bearing, heading)
RotFrame(delta) ==
    IF ~groupAttached
    THEN UNCHANGED <<currentRotation, rotationY>>
    ELSE /\ currentRotation' =
              Smooth(currentRotation, RelativeAngle(bearing, heading), delta)
         /\ rotationY' = currentRotation'

\* the scene: positions, orientation events, mounting of the flower group,
\* frames
RotGeo == \E lat \in Lats, lon \in SelfLons :
    GeoUpdate(lat, lon) /\ UNCHANGED <<heartVars, rotVars, callVars, flowerVars, appVars>>

RotSync == \E lat \in Lats, lon \in PartnerLons :
    PartnerSync(lat, lon) /\ UNCHANGED <<heartVars, rotVars, callVars, flowerVars, appVars>>

RotOrientation == \E w \in CompassHeadings, a \in Alphas :
    /\ HandleOrientation(w, a)
    /\ UNCHANGED <<groupAttached, currentRotation, rotationY, elapsed,
                   fixedDelta, halfRotation>>
    /\ UNCHANGED <<locVars, heartVars, callVars, flowerVars, appVars>>

RotMount ==
    /\ ~groupAttached
    /\ groupAttached' = TRUE
    /\ UNCHANGED <<heading, currentRotation, rotationY, elapsed, fixedDelta,
                   halfRotation>>
    /\ UNCHANGED <<locVars, heartVars, callVars, flowerVars, appVars>>

RotTick == \E delta \in RDeltas :
    /\ elapsed + delta <= MaxRotTime
    /\ RotFrame(delta)
    /\ elapsed' = elapsed + delta
    /\ UNCHANGED <<heading, groupAttached, fixedDelta, halfRotation>>
    /\ UNCHANGED <<locVars, heartVars, callVars, flowerVars, appVars>>

RotNext == RotGeo \/ RotSync \/ RotOrientation \/ RotMount \/ RotTick

SpecRot == Init /\ [][RotNext]_vars

\* C2: while the bearing is unknown (a position is missing) no frame moves
\* the yaw: it keeps its initial value 0.
C2_UnknownBearingHoldsYaw ==
    ~hasBothPositions => (currentRotation = 0 /\ rotationY = 0)

(***************************************************************************)
(* Damping convergence: constant target, fixed frame delta                 *)
(***************************************************************************)

\* a fixed-timestep run is followed for ConvHorizon ticks (4 s)
ConvHorizon == 960
\* the time by which the yaw has settled: 3 simulated seconds
SettleTime == 3 * TPS
\* one degree, in units of 1/S rad
OneDegree == Pi \div 180

\* starting yaws: multiples of 45 degrees and the largest yaw below 2 pi
StartYaws == {(k * TwoPi) \div 8 : k \in 0 .. 7} \cup {TwoPi - 1}
\* every frame delta from 1/240 s to 1/30 s on the tick grid
FixedDeltas == 1 .. 8
\* the headings handleOrientation produces from the events above
Headings == {0, 90, 180, 270, 360}

\* a mounted flower with both positions known, any heading, any yaw left by
\* earlier targets, and a frame delta that stays fixed
ConvInit ==
    /\ selfLat = 0 /\ selfLon \in SelfLons
    /\ partnerLat = 0 /\ partnerLon \in {0, 500}
    /\ HeartInit
    /\ heading \in Headings
    /\ groupAttached = TRUE
    /\ currentRotation \in StartYaws
    /\ rotationY = currentRotation
    /\ elapsed = 0
    /\ fixedDelta \in FixedDeltas
    /\ halfRotation = 0
    /\ CallInit /\ FlowerInit /\ AppInit

ConvTick ==
    /\ elapsed + fixedDelta <= ConvHorizon
    /\ RotFrame(fixedDelta)
    /\ elapsed' = elapsed + fixedDelta
    /\ UNCHANGED <<heading, groupAttached, fixedDelta, halfRotation>>
    /\ UNCHANGED <<locVars, heartVars, callVars, flowerVars, appVars>>

ConvNext == ConvTick

SpecConv == ConvInit /\ [][ConvNext]_vars

\* C4: with constant bearing and heading and a fixed frame delta between
\* 1/240 s and 1/30 s, from every starting yaw in [0, 2 pi) the yaw is within
\* one degree of relativeAngle from 3 simulated seconds on.
C4_SettlesWithinThreeSeconds ==
    elapsed >= SettleTime =>
        Abs(currentRotation - RelativeAngle(bearing, heading)) <= OneDegree

\* C4 witness: a run that started half a turn from its target has passed
\* 3 simulated seconds
C4_Witness ==
    /\ elapsed >= SettleTime
    /\ fixedDelta = 8
    /\ RelativeAngle(bearing, heading) = Pi + HalfPi
    /\ Abs(currentRotation - RelativeAngle(bearing, heading)) <= OneDegree
    /\ currentRotation # RelativeAngle(bearing, heading)

(***************************************************************************)
(* Frame-rate independence: one frame of delta against two of delta / 2    *)
(***************************************************************************)

\* the pairs of runs are followed for MaxSplitTime ticks
MaxSplitTime == 32
SplitDeltas == {2, 4, 8}

SplitInit ==
    /\ selfLat = 0 /\ selfLon \in SelfLons
    /\ partnerLat = 0 /\ partnerLon \in {0, 500}
    /\ HeartInit
    /\ heading \in Headings
    /\ groupAttached = TRUE
    /\ currentRotation \in StartYaws
    /\ rotationY = currentRotation
    /\ elapsed = 0
    /\ fixedDelta = 0
    /\ halfRotation = currentRotation
    /\ CallInit /\ FlowerInit /\ AppInit

\* the same simulated time on both trackers: one frame of delta on the
\* first, two frames of delta / 2 on the second
SplitTick == \E delta \in SplitDeltas :
    /\ elapsed + delta <= MaxSplitTime
    /\ RotFrame(delta)
    /\ halfRotation' =
         Smooth(Smooth(halfRotation, RelativeAngle(bearing, heading), delta \div 2),
                RelativeAngle(bearing, heading), delta \div 2)
    /\ elapsed' = elapsed + delta
    /\ UNCHANGED <<heading, groupAttached, fixedDelta>>
    /\ UNCHANGED <<locVars, heartVars, callVars, flowerVars, appVars>>

SplitNext == SplitTick

SpecSplit == SplitInit /\ [][SplitNext]_vars

\* C5: after the same simulated time the yaw is the same however the time
\* was split into frames (to 3 units of the grid, the rounding of the three
\* lerps involved).
C5_FrameRateIndependent ==
    Abs(currentRotation - halfRotation) <= 3

(***************************************************************************)
(* The pulse parameters as a function of the distance                      *)
(***************************************************************************)

\* every whole distance up to the threshold
MaxPulseDistance == 1000
PulseDistances == 0 .. MaxPulseDistance
\* the distances each of them is compared with
ProbeDistances == {0, 1, 250, 500, 999, 1000}

PulseInit ==
    /\ LocInit /\ HeartInit /\ RotInit /\ FlowerInit /\ AppInit
    /\ argA \in PulseDistances
    /\ argB \in ProbeDistances
    /\ result = <<>>

\* the parameters a pulsing frame computes, for distance argA and for argB
PulseCall ==
    /\ result = <<>>
    /\ result' = <<Bpm(argA), Intensity(argA), Bpm(argB), Intensity(argB)>>
    /\ UNCHANGED <<argA, argB>>
    /\ UNCHANGED <<locVars, heartVars, rotVars, flowerVars, appVars>>

PulseNext == PulseCall

SpecPulse == PulseInit /\ [][PulseNext]_vars

\* C9: for 0 <= d <= 1000 the BPM is 60 + 60 (1 - d/1000) and the intensity
\* 0.03 + 0.05 (1 - d/1000): linear, non-increasing in d, 120 and 0.08 at
\* d = 0, 60 and 0.03 at d = 1000.
C9_PulseParameters ==
    result # <<>> =>
        /\ result[1] = 120000 - 60 * argA
        /\ result[2] = 80000 - 50 * argA
        /\ argA <= argB => (result[1] >= result[3] /\ result[2] >= result[4])
        /\ argA = 0 => (result[1] = 120000 /\ result[2] = 80000)
        /\ argA = 1000 => (result[1] = 60000 /\ result[2] = 30000)
        /\ result[2] <= 80000 /\ result[2] >= 30000

\* C9 witness: the parameters at 1000 m, compared with those at 0 m
C9_Witness ==
    result # <<>> /\ argA = 1000 /\ argB = 0 /\ result[1] = 60000 /\ result[3] = 120000

(***************************************************************************)
(* relativeAngle as a function of bearing and heading                      *)
(***************************************************************************)

\* whole degrees 0 .. 360
MaxDegrees == 360
Degrees == 0 .. MaxDegrees

AngleInit ==
    /\ LocInit /\ HeartInit /\ RotInit /\ FlowerInit /\ AppInit
    /\ argA \in Degrees
    /\ argB \in Degrees
    /\ result = <<>>

\* relativeAngle for targetBearing argA and deviceHeading argB
AngleCall ==
    /\ result = <<>>
    /\ result' = <<RelativeAngle(argA, argB)>>
    /\ UNCHANGED <<argA, argB>>
    /\ UNCHANGED <<locVars, heartVars, rotVars, flowerVars, appVars>>

AngleNext == AngleCall

SpecAngle == AngleInit /\ [][AngleNext]_vars

\* C10: relativeAngle is ((targetBearing - deviceHeading + 360) mod 360) in
\* radians; it lies in [0, 2 pi), and bearing 90 with heading 0 gives pi/2.
C10_RelativeAngle ==
    result # <<>> =>
        /\ result[1] = RoundDiv(((argA - argB + 360) % 360) * Pi, 180)
        /\ result[1] >= 0 /\ result[1] < TwoPi
        /\ (argA = 90 /\ argB = 0) => result[1] = HalfPi

\* C10 witness: bearing 90, heading 0
C10_Witness ==
    result = <<HalfPi>> /\ argA = 90 /\ argB = 0

(***************************************************************************)
(* deviceDetect: the capability flags, and the tier they select            *)
(***************************************************************************)

\* the signals the detection reads from the browser
Signals == {"uaIsMobile", "hasTouch", "mediumScreen", "lowMemory", "fewCores"}

IsMobile(sig) ==
    "uaIsMobile" \in sig \/ ("hasTouch" \in sig /\ "mediumScreen" \in sig)

IsLowEnd(sig) ==
    IsMobile(sig) /\ ("lowMemory" \in sig \/ "fewCores" \in sig)

\* the three branches every tier-dependent choice of Sunflower takes
Tier(mobile, lowEnd) ==
    IF lowEnd THEN "LOW" ELSE IF mobile THEN "MOBILE" ELSE "DESKTOP"

(***************************************************************************)
(* Sunflower: the configuration of each part, by the capability flags      *)
(* Layout angles and rotations are in units of 1/SS rad, lengths in units  *)
(* of 1/S, timeOffset in milliseconds.                                     *)
(***************************************************************************)

\* Math.PI in units of 1/SS
PiU     == 3141593
HalfPiU == PiU \div 2

\* no offset between the rings
GoldenAngleNone == 0 * PiU

\* Math.PI * (3 - Math.sqrt(5)) in units of 1/SS
GOLDEN_ANGLE == 2399963

\* the desktop extrude settings on every device
PetalExtrudeFine(mobile) ==
    [depth |-> 80, bevelEnabled |-> TRUE, curveSegments |-> 10]

\* the extrude settings of a petal (bevel dimensions left out)
PetalExtrude(mobile) ==
    IF mobile THEN [depth |-> 80, bevelEnabled |-> FALSE, curveSegments |-> 4]
              ELSE [depth |-> 80, bevelEnabled |-> TRUE,  curveSegments |-> 10]

SepalExtrude(mobile) ==
    IF mobile THEN [depth |-> 60, bevelEnabled |-> FALSE, curveSegments |-> 3]
              ELSE [depth |-> 60, bevelEnabled |-> TRUE,  curveSegments |-> 6]

LeafExtrude(mobile) ==
    [depth |-> 40, bevelEnabled |-> ~mobile,
     curveSegments |-> IF mobile THEN 3 ELSE 6]

\* one loop of petalRings: the props of the petals of a ring, with
\* timeOffset = i * step + base
Ring(total, ring, ringRadius, step, base, goldenOffset) ==
    [k \in 1 .. total |->
        [index |-> k - 1, total |-> total, ring |-> ring,
         ringRadius |-> ringRadius, timeOffset |-> (k - 1) * step + base,
         goldenOffset |-> goldenOffset]]

PetalRings(mobile, lowEnd) ==
    IF lowEnd THEN
        Ring(11, 0, 3300, 200, 0, 0)
        \o Ring(18, 1, 4200, 120, 1000, RoundDiv(GOLDEN_ANGLE, 2))
    ELSE IF mobile THEN
        Ring(13, 0, 3300, 200, 0, 0)
        \o Ring(21, 1, 4200, 100, 1000, RoundDiv(GOLDEN_ANGLE, 2))
    ELSE
        Ring(13, 0, 3300, 200, 0, 0)
        \o Ring(21, 1, 4100, 150, 1000, RoundDiv(GOLDEN_ANGLE, 2))
        \o Ring(34, 2, 5000, 100, 2000, GOLDEN_ANGLE)

\* the sepal counts of the two mobile tiers exchanged
SepalCountSwapped(mobile, lowEnd) ==
    IF mobile THEN (IF lowEnd THEN 12 ELSE 8) ELSE 18

SepalCount(mobile, lowEnd) ==
    IF mobile THEN (IF lowEnd THEN 8 ELSE 12) ELSE 18

\* the <Leaf/> elements Sunflower renders
LeafProps(mobile, lowEnd) ==
    << [side |-> 1, yPos |-> -12000], [side |-> -1, yPos |-> -20000] >>
    \o (IF ~lowEnd THEN << [side |-> 1, yPos |-> -28000] >> ELSE << >>)
    \o (IF ~mobile THEN << [side |-> -1, yPos |-> -6000] >> ELSE << >>)

\* Leaf: the vein meshes of one leaf (centre vein, secondary veins)
LeafVeins(mobile, lowEnd) ==
    (IF ~lowEnd THEN 1 ELSE 0) + (IF ~mobile THEN 8 ELSE 0)

\* CenterDisc: cylinder segments, dome segments, floret ring
DiscParts(mobile) ==
    [segments |-> IF mobile THEN 24 ELSE 40,
     dome |-> IF mobile THEN <<20, 12>> ELSE <<32, 20>>,
     floretRing |-> ~mobile]

\* Stem: tube segments and radial segments of the mesh it asks for
StemSegments(mobile) ==
    IF mobile THEN <<14, 6>> ELSE <<28, 10>>

\* Stem: numHairs
NumHairs(mobile) == IF mobile THEN 0 ELSE 60

\* createCurvedPetalGeometry: the lateral wave is applied
LateralWave(mobile) == ~mobile

(***************************************************************************)
(* Sunflower: construction of the parts                                    *)
(***************************************************************************)

\* Math.cos(x), x in units of 1/S
Cos(x) == Sin(x + HalfPi)

\* an angle in units of 1/SS on the grid of Math.sin and Math.cos
ToS(angle) == RoundDiv(angle, 100)

\* Math.random(): call number `call` of run `run`, in units of 1/S; run 0
\* returns 0 every time
NumRandomRuns == 2
MathRandom(run, call) == (run * (call + 1) * 2437) % S

\* Petal: Math.sin(index * 127.1 + ring * 311.7) * 43758.5453 in units of
\* 1/S, tabulated for index 0 .. 33 of rings 0 .. 2
SeedProduct(index, ring) ==
    <<
       <<0, 433633256, 116298090, -402442739, -224231053, 342305184,
         316035449, -257546189, -385107942, 154262324, 426480261,
         -39882629, -437176567, -77365759, 416427489, 189049355,
         -365725477, -287134948, 288717439, 364567400, -190942438,
         -415777128, 79433263, 437080698, 37789412, -426945784, -152293959,
         386101368, 255844254, -317485326, -340992099, 226033091,
         401612949, -118322674>>,
       <<-275941807, -373548954, 175758001, 420686297, -62932215,
         -437564377, -54420181, 422969178, 167858223, -377950513,
         -269222504, 305746495, 351222057, -211550643, -407958794,
         102138303, 435351733, 14620673, -431430548, -130328010, 396477281,
         236661068, -333006066, -325971492, 245582276, 391835327,
         -140494165, -429515102, 25300540, 436300569, 91712908, -411703665,
         -202129602, 357493600>>,
       <<428320861, 146194828, -389112201, -250552614, 321915346,
         336888565, -231563659, -398992685, 124555981, 432397923, -8589201,
         -434701501, -107995388, 405737723, 216812046, -347589907,
         -310033777, 264440526, 380955293, -162270381, -424475331,
         48428396, 437463564, 68896962, -418985773, -181266677, 370371031,
         280598181, -295116120, -359746726, 198633996, 413019287,
         -87864461, -436584060>>
    >>[ring + 1][index + 1]

\* Math.floor(x), x in units of 1/S
Floor(x) == S * (x \div S)

\* a seed drawn from Math.random at the time of the call
RandomSeedUnseeded(index, ring) ==
    MathRandom(1 + clock, index)

\* Petal: randomSeed = s - Math.floor(s), in units of 1/S
RandomSeed(index, ring) ==
    LET s == SeedProduct(index, ring)
    IN  s - Floor(s)

\* the angle without the ring offset
PetalAngleNoOffset(index, total, goldenOffset) ==
    RoundDiv(index * 2 * PiU, total)

\* Petal: angle = (index / total) * Math.PI * 2 + goldenOffset
PetalAngle(index, total, goldenOffset) ==
    RoundDiv(index * 2 * PiU, total) + goldenOffset

PetalLength(ring, randomSeed) ==
    7800 + ring * 2400 + RoundDiv((randomSeed - 5000) * 8, 100)

BaseTilt(ring) == 550000 - HalfPiU - ring * 240000
RandomDroop(randomSeed) == (randomSeed - 5000) * 14
RandomTwist(randomSeed) == (randomSeed - 5000) * 8

\* createCurvedPetalGeometry: what the geometry is built from
CreateCurvedPetalGeometry(widthVariation, ring, randomSeed, mobile) ==
    [extrude |-> PetalExtrude(mobile), widthVariation |-> widthVariation,
     ring |-> ring, randomSeed |-> randomSeed,
     lateralWave |-> LateralWave(mobile)]

\* Petal: the mesh as it is first rendered
Petal(props, mobile) ==
    LET angle == PetalAngle(props.index, props.total, props.goldenOffset)
        randomSeed == RandomSeed(props.index, props.ring)
        petalLength == PetalLength(props.ring, randomSeed)
    IN  [index |-> props.index, total |-> props.total, ring |-> props.ring,
         timeOffset |-> props.timeOffset,
         angle |-> angle,
         randomSeed |-> randomSeed,
         petalLength |-> petalLength,
         geometry |-> CreateCurvedPetalGeometry(
                          8500 + RoundDiv(randomSeed * 3, 10), props.ring,
                          randomSeed, mobile),
         position |-> << RoundDiv(Cos(ToS(angle)) * props.ringRadius, S), 200,
                         RoundDiv(Sin(ToS(angle)) * props.ringRadius, S) >>,
         rotation |-> << BaseTilt(props.ring) + RandomDroop(randomSeed),
                         HalfPiU - angle, RandomTwist(randomSeed) >>,
         scale |-> << petalLength, petalLength, S >>,
         frameCount |-> 0]

\* Sepal: the mesh of sepal index of total
Sepal(index, total, mobile) ==
    LET angle == RoundDiv(index * 2 * PiU, total)
        sepalLength == 4500 + (index % 3) * 500
        tilt == 850000 - HalfPiU
        randomDroop == Sin(index * 1733000) * 5
    IN  [index |-> index, angle |-> angle,
         geometry |-> SepalExtrude(mobile),
         position |-> << RoundDiv(Cos(ToS(angle)) * 3600, S), -400,
                         RoundDiv(Sin(ToS(angle)) * 3600, S) >>,
         rotation |-> << tilt + randomDroop, HalfPiU - angle, 0 >>,
         scale |-> << sepalLength, sepalLength, S >>]

\* Leaf: the group and its mesh
Leaf(props, mobile, lowEnd) ==
    [side |-> props.side, yPos |-> props.yPos,
     geometry |-> [extrude |-> LeafExtrude(mobile), wave |-> ~mobile],
     veins |-> LeafVeins(mobile, lowEnd),
     position |-> << props.side * 800, props.yPos, 0 >>,
     groupRotation |-> << 0, 0, props.side * 800000 >>,
     rotation |-> << 0, 0, 0 >>,
     scale |-> << 6500, 6500, S >>,
     frameCount |-> 0]

\* CenterDisc: the group
CenterDisc(mobile) ==
    [parts |-> DiscParts(mobile), rotation |-> << 0, 0, 0 >>, frameCount |-> 0]

(***************************************************************************)
(* Stem: the mesh and the trichome hairs                                   *)
(***************************************************************************)

\* what curve.computeFrenetFrames can hand the tapered builder: sound
\* frames, an exception, frames with missing entries (reading N.x then
\* throws inside the try block), or frames of NaN / zero vectors
FrameOutcomes == {"ok", "throws", "undefined", "nan"}

\* new THREE.TubeGeometry(curve, tubularSegments, radius, radialSegments)
TubeGeometry(tubularSegments, radius, radialSegments) ==
    [builder |-> "TubeGeometry", tubularSegments |-> tubularSegments,
     radius |-> radius, radialSegments |-> radialSegments]

RECURSIVE VertexRow(_, _)
\* the inner vertex loop continued from j: the number of vertices pushed
VertexRow(j, radialSegments) ==
    IF j > radialSegments THEN 0 ELSE 1 + VertexRow(j + 1, radialSegments)

RECURSIVE VertexLoop(_, _, _)
\* the outer vertex loop continued from i: the number of vertices pushed
VertexLoop(i, tubeSegments, radialSegments) ==
    IF i > tubeSegments THEN 0
    ELSE VertexRow(0, radialSegments)
         + VertexLoop(i + 1, tubeSegments, radialSegments)

RECURSIVE IndexRow(_, _, _)
\* the inner index loop of row i continued from j: the indices pushed
IndexRow(i, j, radialSegments) ==
    IF j >= radialSegments THEN << >>
    ELSE LET a == i * (radialSegments + 1) + j
             b == a + 1
             c == (i + 1) * (radialSegments + 1) + j
             d == c + 1
         IN  << a, b, c, b, d, c >> \o IndexRow(i, j + 1, radialSegments)

RECURSIVE IndexLoopInclusive(_, _, _)
\* the outer index loop with the bound of the vertex loop (i <= tubeSegments)
IndexLoopInclusive(i, tubeSegments, radialSegments) ==
    IF i > tubeSegments THEN << >>
    ELSE IndexRow(i, 0, radialSegments)
         \o IndexLoopInclusive(i + 1, tubeSegments, radialSegments)

RECURSIVE IndexLoop(_, _, _)
\* the outer index loop continued from i: the indices pushed
IndexLoop(i, tubeSegments, radialSegments) ==
    IF i >= tubeSegments THEN << >>
    ELSE IndexRow(i, 0, radialSegments)
         \o IndexLoop(i + 1, tubeSegments, radialSegments)

\* the body of the try block: the BufferGeometry with its attribute arrays
\* (by length) and its index, built from the given frames
TaperedStem(tubeSegments, radialSegments, frames) ==
    LET pushed == VertexLoop(0, tubeSegments, radialSegments)
    IN  [builder |-> "tapered", frames |-> frames,
         tubeSegments |-> tubeSegments, radialSegments |-> radialSegments,
         position |-> 3 * pushed, normal |-> 3 * pushed,
         uv |-> 2 * pushed, color |-> 3 * pushed,
         index |-> IndexLoop(0, tubeSegments, radialSegments)]

\* Stem: the geometry memo.  frames is what computeFrenetFrames returns to
\* the tapered builder ("none" where it is not called)
StemGeometry(mobile, frames) ==
    IF mobile THEN TubeGeometry(14, 480, 6)
    ELSE IF frames \in {"throws", "undefined"}
         THEN TubeGeometry(14, 480, 6)
         ELSE TaperedStem(StemSegments(mobile)[1], StemSegments(mobile)[2],
                          frames)


\* Stem: the hairs memo
Hairs(mobile, run) ==
    IF mobile THEN << >>
    ELSE [k \in 1 .. NumHairs(mobile) |->
            [t |-> 1000 + RoundDiv((k - 1) * 7500, NumHairs(mobile)),
             angle |-> ((k - 1) * GOLDEN_ANGLE * 3) % (2 * PiU),
             length |-> 15000 + RoundDiv(MathRandom(run, k - 1) * 12000, S)]]

(***************************************************************************)
(* The frame callbacks of the flower                                       *)
(***************************************************************************)

\* state.clock.elapsedTime in milliseconds
ElapsedMs(ticks) == RoundDiv(ticks * 1000, TPS)

\* scale.setScalar(s * petalLength), s in units of 1/SS
SetScalar(s, petalLength) ==
    LET v == RoundDiv(petalLength * RoundDiv(s, 100), S)
    IN  << v, v, v >>

\* a frame callback that also turns the petal about its own axis
PetalFrameSpin(p, ticks, scale, mobile, lowEnd) ==
    [p EXCEPT !.frameCount = IF mobile THEN @ + 1 ELSE @,
              !.rotation = << @[1], @[2] + ticks, @[3] >>,
              !.scale = SetScalar(PetalS(scale), p.petalLength)]

\* Petal's frame callback, on petal mesh p
PetalFrame(p, ticks, scale, mobile, lowEnd) ==
    LET count == IF mobile THEN p.frameCount + 1 ELSE p.frameCount
        skipFrames == IF lowEnd THEN 3 ELSE 2
        t == ElapsedMs(ticks) + p.timeOffset
        windStrength == 14000 + p.ring * 7000
        swayX == RoundDiv(Sin(RoundDiv(t * 11, 2) + p.index * 4500)
                          * windStrength, S)
        swayZ == RoundDiv(Cos(t * 4 + p.index * 3500)
                          * RoundDiv(windStrength * 6, 10), S)
    IN  IF mobile /\ count % skipFrames # 0
        THEN [p EXCEPT !.frameCount = count]
        ELSE [p EXCEPT
                !.frameCount = count,
                !.rotation = << BaseTilt(p.ring) + RandomDroop(p.randomSeed)
                                  + swayX,
                                @[2],
                                RandomTwist(p.randomSeed) + swayZ >>,
                !.scale = SetScalar(PetalS(scale), p.petalLength)]

\* mutant: a leaf callback without the frame throttle
LeafFrameEvery(l, ticks, mobile) ==
    [l EXCEPT !.frameCount = IF mobile THEN @ + 1 ELSE @,
              !.rotation = << @[1], @[2],
                              l.side * 300000
                                + Sin(RoundDiv(ElapsedMs(ticks) * 7, 2)
                                        + l.yPos) * 5 >>]

\* Leaf's frame callback, on leaf l
LeafFrame(l, ticks, mobile) ==
    LET count == IF mobile THEN l.frameCount + 1 ELSE l.frameCount
        t == ElapsedMs(ticks)
    IN  IF mobile /\ count % 3 # 0
        THEN [l EXCEPT !.frameCount = count]
        ELSE [l EXCEPT
                !.frameCount = count,
                !.rotation = << @[1], @[2],
                                l.side * 300000
                                  + Sin(RoundDiv(t * 7, 2) + l.yPos) * 5 >>]

\* CenterDisc's frame callback
DiscFrame(d, ticks, mobile) ==
    LET count == IF mobile THEN d.frameCount + 1 ELSE d.frameCount
    IN  IF mobile /\ count % 2 # 0
        THEN [d EXCEPT !.frameCount = count]
        ELSE [d EXCEPT
                !.frameCount = count,
                !.rotation = << @[1], ElapsedMs(ticks) * 12, @[3] >>]

\* one rendered frame at clock time ticks: the callbacks of the parts that
\* are mounted, the petals reading scale from heartbeatScale.current
FlowerFrame(ticks, scale) ==
    /\ IF petals = << >>
       THEN UNCHANGED <<petals, leaves, disc>>
       ELSE /\ petals' = [k \in DOMAIN petals |->
                            PetalFrame(petals[k], ticks, scale, isMobile,
                                       isLowEnd)]
            /\ leaves' = [k \in DOMAIN leaves |->
                            LeafFrame(leaves[k], ticks, isMobile)]
            /\ disc' = DiscFrame(disc, ticks, isMobile)
    /\ UNCHANGED <<isMobile, isLowEnd, sepals, stem, hairs, geometryBuilds,
                   previous>>

(***************************************************************************)
(* The flower: mount, frames, unmount                                      *)
(***************************************************************************)

\* the clock of the flower runs is followed up to MaxClock ticks
MaxClock == 16
FlowerDeltas == {4, 8}

\* any device; the scene has committed (its flower group is attached), the
\* flower itself is not mounted yet, no position known
FlowerDeviceInit ==
    /\ LocInit /\ HeartInit /\ CallInit /\ AppInit
    /\ heading = 0 /\ groupAttached = TRUE
    /\ currentRotation = 0 /\ rotationY = 0
    /\ elapsed = 0 /\ fixedDelta = 0 /\ halfRotation = 0
    /\ \E sig \in SUBSET Signals :
          isMobile = IsMobile(sig) /\ isLowEnd = IsLowEnd(sig)
    /\ petals = << >> /\ sepals = << >> /\ leaves = << >> /\ hairs = << >>
    /\ disc = << >> /\ stem = << >>
    /\ clock = 0
    /\ geometryBuilds = 0
    /\ previous = << >>

\* <Sunflower/> mounts: every memo runs once
Mount == \E frames \in (IF isMobile THEN {"none"} ELSE FrameOutcomes),
            run \in 0 .. NumRandomRuns - 1 :
    LET rings == PetalRings(isMobile, isLowEnd)
        sepalCount == SepalCount(isMobile, isLowEnd)
        leafProps == LeafProps(isMobile, isLowEnd)
    IN  /\ petals = << >>
        \* the curve is the same at every mount, and so are its frames
        /\ previous # << >> => StemGeometry(isMobile, frames) = previous.stem
        /\ petals' = [k \in DOMAIN rings |-> Petal(rings[k], isMobile)]
        /\ sepals' = [k \in 1 .. sepalCount |->
                        Sepal(k - 1, sepalCount, isMobile)]
        /\ disc' = CenterDisc(isMobile)
        /\ stem' = StemGeometry(isMobile, frames)
        /\ hairs' = Hairs(isMobile, run)
        /\ leaves' = [k \in DOMAIN leafProps |->
                        Leaf(leafProps[k], isMobile, isLowEnd)]
        /\ geometryBuilds' = geometryBuilds + Len(rings) + sepalCount
                               + Len(leafProps) + 1
        /\ UNCHANGED <<isMobile, isLowEnd, clock, previous>>
        /\ UNCHANGED <<locVars, heartVars, rotVars, callVars, appVars>>

\* what a mount built: the instance descriptors and geometry parameters of
\* every part, without the transforms the frames animate
Descriptors ==
    [petals |-> [k \in DOMAIN petals |->
                    [angle |-> petals[k].angle,
                     position |-> petals[k].position,
                     petalLength |-> petals[k].petalLength,
                     geometry |-> petals[k].geometry]],
     sepals |-> sepals,
     disc |-> disc.parts,
     stem |-> stem,
     hairs |-> hairs,
     leaves |-> [k \in DOMAIN leaves |->
                    [position |-> leaves[k].position,
                     geometry |-> leaves[k].geometry,
                     veins |-> leaves[k].veins]]]

\* <Sunflower/> unmounts (once); what it had built is kept for comparison
Unmount ==
    /\ petals # << >>
    /\ previous = << >>
    /\ previous' = Descriptors
    /\ petals' = << >> /\ sepals' = << >> /\ leaves' = << >> /\ hairs' = << >>
    /\ disc' = << >> /\ stem' = << >>
    /\ UNCHANGED <<isMobile, isLowEnd, clock, geometryBuilds>>
    /\ UNCHANGED <<locVars, heartVars, rotVars, callVars, appVars>>

FlowerGeo ==
    GeoUpdate(0, 0) /\ UNCHANGED <<heartVars, rotVars, callVars, flowerVars, appVars>>

FlowerSync == \E lon \in {0, 500} :
    PartnerSync(0, lon) /\ UNCHANGED <<heartVars, rotVars, callVars, flowerVars, appVars>>

\* one frame: the clock advances, the petal, leaf and disc callbacks, the
\* heartbeat callback and the rotation callback run; the petals all run
\* before or all after the heartbeat callback
FlowerTick == \E delta \in FlowerDeltas, petalsFirst \in BOOLEAN :
    /\ clock + delta <= MaxClock
    /\ clock' = clock + delta
    /\ HeartFrame(delta)
    /\ RotFrame(delta)
    /\ FlowerFrame(clock', IF petalsFirst THEN scaleRef ELSE scaleRef')
    /\ UNCHANGED <<heading, groupAttached, elapsed, fixedDelta, halfRotation>>
    /\ UNCHANGED <<locVars, callVars, appVars>>

FlowerNext == Mount \/ Unmount \/ FlowerGeo \/ FlowerSync \/ FlowerTick

SpecFlower == FlowerDeviceInit /\ [][FlowerNext]_vars

(***************************************************************************)
(* Properties of the stem and of the frames                                *)
(***************************************************************************)

Unanimated ==
    [petals |-> [k \in DOMAIN petals |->
                    [geometry |-> petals[k].geometry,
                     position |-> petals[k].position,
                     rotationY |-> petals[k].rotation[2],
                     angle |-> petals[k].angle,
                     petalLength |-> petals[k].petalLength]],
     sepals |-> sepals,
     discParts |-> IF disc = << >> THEN << >>
                   ELSE << disc.parts, disc.rotation[1], disc.rotation[3] >>,
     stem |-> stem,
     hairs |-> hairs,
     leaves |-> [k \in DOMAIN leaves |->
                    [geometry |-> leaves[k].geometry,
                     veins |-> leaves[k].veins,
                     position |-> leaves[k].position,
                     groupRotation |-> leaves[k].groupRotation,
                     rotationXY |-> << leaves[k].rotation[1],
                                       leaves[k].rotation[2] >>,
                     scale |-> leaves[k].scale]],
     geometryBuilds |-> geometryBuilds]

\* C12: a frame changes only petal rotation.x, rotation.z and scale, leaf
\* rotation.z and disc rotation.y (and the frame counters): every geometry,
\* every position, each petal's rotation.y and the number of geometries
\* built are the same after the frame.
C12_FrameTouchesTransformsOnly ==
    [][clock' # clock => Unanimated' = Unanimated]_vars

\* C12 witness: frames have run on a mounted desktop flower and have moved
\* petals, leaves and disc
C12_Witness ==
    /\ petals # << >> /\ ~isMobile /\ clock = MaxClock
    /\ petals[1].rotation[1] # BaseTilt(0) + RandomDroop(petals[1].randomSeed)
    /\ petals[1].scale[3] # S
    /\ leaves[1].rotation[3] # 0
    /\ disc.rotation[2] # 0

\* the petals whose callback got past the frame throttle in the step
Updated(k) ==
    ~isMobile \/ petals'[k].frameCount % (IF isLowEnd THEN 3 ELSE 2) = 0

\* a scale vector times the factor s (units of 1/SS)
ScaleBy(v, s) ==
    [n \in 1 .. 3 |-> RoundDiv(v[n] * RoundDiv(s, 100), S)]

\* C13: in every frame there is one factor s, the heartbeat scale, such that
\* every petal that is updated ends at its construction-time scale
\* (petalLength, petalLength, 1) times s.
C13_UniformHeartbeatScale ==
    [][(clock' # clock /\ petals # << >>) =>
          \E s \in {PetalS(scaleRef), PetalS(scaleRef')} :
              \A k \in DOMAIN petals :
                  Updated(k) =>
                      petals'[k].scale =
                          ScaleBy(<< petals[k].petalLength,
                                     petals[k].petalLength, S >>, s)]_vars

(***************************************************************************)
(* The resources of the tiers, compared                                    *)
(***************************************************************************)

Bit(b) == IF b THEN 1 ELSE 0

\* the petals of ring r among the petal props
RingCount(rings, r) ==
    Cardinality({k \in DOMAIN rings : rings[k].ring = r})

\* what a device with the given flags is asked to build: every count and
\* toggle of Sunflower that depends on the flags
Resources(mobile, lowEnd) ==
    LET rings == PetalRings(mobile, lowEnd)
    IN  [petalRings     |-> Cardinality({rings[k].ring : k \in DOMAIN rings}),
         ring0          |-> RingCount(rings, 0),
         ring1          |-> RingCount(rings, 1),
         ring2          |-> RingCount(rings, 2),
         sepals         |-> SepalCount(mobile, lowEnd),
         leaves         |-> Len(LeafProps(mobile, lowEnd)),
         petalCurve     |-> PetalExtrude(mobile).curveSegments,
         sepalCurve     |-> SepalExtrude(mobile).curveSegments,
         leafCurve      |-> LeafExtrude(mobile).curveSegments,
         petalBevel     |-> Bit(PetalExtrude(mobile).bevelEnabled),
         sepalBevel     |-> Bit(SepalExtrude(mobile).bevelEnabled),
         leafBevel      |-> Bit(LeafExtrude(mobile).bevelEnabled),
         stemTube       |-> StemSegments(mobile)[1],
         stemRadial     |-> StemSegments(mobile)[2],
         discSegments   |-> DiscParts(mobile).segments,
         hairs          |-> NumHairs(mobile),
         veins          |-> LeafVeins(mobile, lowEnd),
         floretRing     |-> Bit(DiscParts(mobile).floretRing),
         lateralWave    |-> Bit(LateralWave(mobile))]

\* two devices, any signals each
TiersInit ==
    /\ LocInit /\ HeartInit /\ RotInit /\ FlowerInit /\ AppInit
    /\ argA \in SUBSET Signals
    /\ argB \in SUBSET Signals
    /\ result = << >>

\* the tier and the resources of the device with signals argA and of the
\* device with signals argB
TiersCall ==
    /\ result = << >>
    /\ result' = << [tier |-> Tier(IsMobile(argA), IsLowEnd(argA)),
                     resources |-> Resources(IsMobile(argA), IsLowEnd(argA))],
                    [tier |-> Tier(IsMobile(argB), IsLowEnd(argB)),
                     resources |-> Resources(IsMobile(argB), IsLowEnd(argB))] >>
    /\ UNCHANGED <<argA, argB>>
    /\ UNCHANGED <<locVars, heartVars, rotVars, flowerVars, appVars>>

TiersNext == TiersCall

SpecTiers == TiersInit /\ [][TiersNext]_vars

\* LOW < MOBILE < DESKTOP
TierRank(tier) ==
    IF tier = "LOW" THEN 0 ELSE IF tier = "MOBILE" THEN 1 ELSE 2

\* C14: resource usage is monotonic in the tier: every ring count, the number
\* of rings, the sepal and leaf counts, the curve segments, the bevels, the
\* stem segments and every secondary-detail toggle of the lower tier is at
\* most its value at the higher tier.
C14_TierMonotonic ==
    result # << >> =>
        (TierRank(result[1].tier) <= TierRank(result[2].tier) =>
            \A f \in DOMAIN result[1].resources :
                result[1].resources[f] <= result[2].resources[f])

\* C14 witness: a low-end device compared with a desktop device
C14_Witness ==
    /\ result # << >>
    /\ result[1].tier = "LOW" /\ result[2].tier = "DESKTOP"
    /\ result[1].resources.ring0 = 11 /\ result[2].resources.ring2 = 34
    /\ result[1].resources.sepals < result[2].resources.sepals

\* the resources the strict claim names: curve segments, bevels, secondary
\* toggles
DetailResources ==
    {"petalCurve", "sepalCurve", "leafCurve", "petalBevel", "sepalBevel",
     "leafBevel", "hairs", "floretRing", "lateralWave"}

\* the rings both configurations have
SharedRings(a, b) ==
    {f \in {"ring0", "ring1", "ring2"} : a[f] > 0 /\ b[f] > 0}

\* C15 as stated: each step up (LOW to MOBILE, MOBILE to DESKTOP) strictly
\* increases the curve segment counts, the bevels, the secondary toggles and
\* the count of every ring both tiers have.
C15_StepUpStrict ==
    result # << >> =>
        (TierRank(result[1].tier) + 1 = TierRank(result[2].tier) =>
            \A f \in DetailResources
                     \cup SharedRings(result[1].resources, result[2].resources) :
                result[1].resources[f] < result[2].resources[f])

\* C15 amended: each step up strictly increases the sepal count, the leaf
\* count, the leaf veins and the total number of petals.  The step from LOW
\* to MOBILE strictly increases the count of both rings and leaves curve
\* segments, bevels and secondary toggles as they are; the step from MOBILE
\* to DESKTOP strictly increases curve segments, bevels and secondary
\* toggles and leaves the counts of rings 0 and 1 as they are.
C15_StepUp ==
    result # << >> =>
        LET a == result[1].resources
            b == result[2].resources
        IN  (TierRank(result[1].tier) + 1 = TierRank(result[2].tier) =>
                /\ \A f \in {"sepals", "leaves", "veins"} : a[f] < b[f]
                /\ a.ring0 + a.ring1 + a.ring2 < b.ring0 + b.ring1 + b.ring2
                /\ result[1].tier = "LOW" =>
                      /\ \A f \in SharedRings(a, b) : a[f] < b[f]
                      /\ \A f \in DetailResources : a[f] = b[f]
                /\ result[1].tier = "MOBILE" =>
                      /\ \A f \in SharedRings(a, b) : a[f] = b[f]
                      /\ \A f \in DetailResources : a[f] < b[f])

\* C15 witness: both steps up are compared
C15_Witness ==
    /\ result # << >>
    /\ result[1].tier = "MOBILE" /\ result[2].tier = "DESKTOP"
    /\ result[1].resources.petalCurve = 4 /\ result[2].resources.petalCurve = 10
    /\ result[1].resources.ring1 = 21 /\ result[2].resources.ring1 = 21

(***************************************************************************)
(* The petal layout                                                        *)
(***************************************************************************)

\* the ring sizes the tiers are stated to have
StatedRings(tier) ==
    IF tier = "LOW" THEN << 11, 18 >>
    ELSE IF tier = "MOBILE" THEN << 13, 21 >>
    ELSE << 13, 21, 34 >>

\* the ring offsets as stated: 0, GOLDEN_ANGLE / 2, GOLDEN_ANGLE
StatedOffset(ring) ==
    << 0, RoundDiv(GOLDEN_ANGLE, 2), GOLDEN_ANGLE >>[ring + 1]

\* C17: the mounted petals are exactly the rings of the tier, ring by ring
\* with indices 0 .. c - 1; petal i of a ring of c petals has angle
\* (i / c) * 2 pi + offset, so neighbours in a ring are 2 pi / c apart (to
\* one unit of the grid); the offsets 0, GOLDEN_ANGLE / 2, GOLDEN_ANGLE grow
\* strictly with the ring index.
C17_RingLayout ==
    petals # << >> =>
        LET stated == StatedRings(Tier(isMobile, isLowEnd))
            Start(r) == IF r = 0 THEN 0
                        ELSE IF r = 1 THEN stated[1]
                        ELSE stated[1] + stated[2]
        IN  /\ Len(petals) = Start(Len(stated) - 1) + stated[Len(stated)]
            /\ \A r \in 0 .. Len(stated) - 1 :
                 \A i \in 0 .. stated[r + 1] - 1 :
                    LET p == petals[Start(r) + i + 1]
                    IN  /\ p.ring = r /\ p.index = i /\ p.total = stated[r + 1]
                        /\ p.angle = RoundDiv(i * 2 * PiU, stated[r + 1])
                                       + StatedOffset(r)
                        /\ i > 0 =>
                             Abs(p.angle - petals[Start(r) + i].angle
                                 - RoundDiv(2 * PiU, stated[r + 1])) <= 1
            /\ \A r \in 1 .. Len(stated) - 1 :
                 StatedOffset(r - 1) < StatedOffset(r)

\* C17 witness: the desktop flower is mounted, 68 petals in three rings
C17_Witness ==
    /\ petals # << >> /\ ~isMobile
    /\ Len(petals) = 68
    /\ petals[14].ring = 1 /\ petals[14].angle = RoundDiv(GOLDEN_ANGLE, 2)
    /\ petals[68].ring = 2 /\ petals[68].index = 33

(***************************************************************************)
(* Two consecutive rings, of any sizes                                     *)
(***************************************************************************)

\* equal ring sizes are tried up to MaxRingCount
MaxRingCount == 34

\* the sizes of the consecutive rings r, r + 1 of every tier
TierRingPairs ==
    {pair \in
        {<< RingCount(PetalRings(IsMobile(sig), IsLowEnd(sig)), r),
            RingCount(PetalRings(IsMobile(sig), IsLowEnd(sig)), r + 1) >> :
                sig \in SUBSET Signals, r \in {0, 1}} :
        pair[1] > 0 /\ pair[2] > 0}

\* the goldenOffset petalRings gives ring r
GoldenOffset(r) ==
    LET rings == PetalRings(FALSE, FALSE)
    IN  rings[CHOOSE k \in DOMAIN rings : rings[k].ring = r].goldenOffset

\* the petal angles of a ring of `total` petals with offset goldenOffset,
\* reduced mod 2 pi
RingAngles(total, goldenOffset) ==
    {PetalAngle(i, total, goldenOffset) % (2 * PiU) : i \in 0 .. total - 1}

\* ring argB and ring argB + 1, with the sizes of a tier or with equal sizes
RingsInit ==
    /\ LocInit /\ HeartInit /\ RotInit /\ FlowerInit /\ AppInit
    /\ argA \in TierRingPairs \cup {<< c, c >> : c \in 1 .. MaxRingCount}
    /\ argB \in {0, 1}
    /\ result = << >>

RingsCall ==
    /\ result = << >>
    /\ result' = << RingAngles(argA[1], GoldenOffset(argB)),
                    RingAngles(argA[2], GoldenOffset(argB + 1)) >>
    /\ UNCHANGED <<argA, argB>>
    /\ UNCHANGED <<locVars, heartVars, rotVars, flowerVars, appVars>>

RingsNext == RingsCall

SpecRings == RingsInit /\ [][RingsNext]_vars

\* C18: no petal angle of ring r + 1 equals (mod 2 pi) a petal angle of
\* ring r, for the ring sizes of every tier and for equal ring sizes.
C18_RingsNeverAlign ==
    result # << >> => result[1] \cap result[2] = {}

\* C18 witness: rings 1 and 2 of the desktop tier, 21 and 34 petals
C18_Witness ==
    /\ argA = << 21, 34 >> /\ argB = 1
    /\ result # << >>
    /\ Cardinality(result[1]) = 21 /\ Cardinality(result[2]) = 34

(***************************************************************************)
(* The tapered stem mesh, for any segment counts                           *)
(***************************************************************************)

\* segment counts tried besides the 28 x 10 of Stem
MaxTubeSegments == 8
MaxRadialSegments == 6

StemInit ==
    /\ LocInit /\ HeartInit /\ RotInit /\ FlowerInit /\ AppInit
    /\ argA \in (1 .. MaxTubeSegments) \cup {StemSegments(FALSE)[1]}
    /\ argB \in (1 .. MaxRadialSegments) \cup {StemSegments(FALSE)[2]}
    /\ result = << >>

\* the try block with tubeSegments = argA, radialSegments = argB
StemCall ==
    /\ result = << >>
    /\ result' = << TaperedStem(argA, argB, "ok") >>
    /\ UNCHANGED <<argA, argB>>
    /\ UNCHANGED <<locVars, heartVars, rotVars, flowerVars, appVars>>

StemNext == StemCall

SpecStem == StemInit /\ [][StemNext]_vars

\* C19: with V = (S + 1) * (R + 1), the position, normal and color arrays
\* hold 3 V numbers, the uv array 2 V, the index holds 2 * S * R triangles,
\* and every index is >= 0 and < V.
C19_StemBuffers ==
    result # << >> =>
        LET mesh == result[1]
            V == (argA + 1) * (argB + 1)
        IN  /\ mesh.position = 3 * V
            /\ mesh.normal = 3 * V
            /\ mesh.color = 3 * V
            /\ mesh.uv = 2 * V
            /\ Len(mesh.index) = 3 * (2 * argA * argB)
            /\ \A n \in DOMAIN mesh.index :
                  mesh.index[n] >= 0 /\ mesh.index[n] < V

\* C19 witness: the 28 x 10 mesh of Stem, 319 vertices, 560 triangles, the
\* last vertex indexed
C19_Witness ==
    /\ argA = 28 /\ argB = 10
    /\ result # << >>
    /\ result[1].position = 957
    /\ Len(result[1].index) = 1680
    /\ \E n \in DOMAIN result[1].index : result[1].index[n] = 318

(***************************************************************************)
(* Two mounts compared                                                     *)
(***************************************************************************)

\* C20: a second mount on the same device builds what the first built:
\* the same descriptors and geometry parameters for petals, sepals, disc,
\* stem, hairs and leaves.
C20_DeterministicBuild ==
    (previous # << >> /\ petals # << >>) => Descriptors = previous

(***************************************************************************)
(* The variation seed, called again and again                              *)
(***************************************************************************)

\* the calls of one (index, ring) are logged up to MaxSeedCalls
MaxSeedCalls == 3
SeedIndexes == 0 .. 33
SeedRings == 0 .. 2

\* any petal index and ring; nothing called yet
SeedInit ==
    /\ LocInit /\ HeartInit /\ RotInit /\ FlowerInit /\ AppInit
    /\ argA \in SeedIndexes
    /\ argB \in SeedRings
    /\ result = << >>

\* the randomSeed memo runs for index argA, ring argB
SeedCall ==
    /\ Len(result) < MaxSeedCalls
    /\ result' = Append(result, RandomSeed(argA, argB))
    /\ UNCHANGED <<argA, argB>>
    /\ UNCHANGED <<locVars, heartVars, rotVars, flowerVars, appVars>>

\* frames pass between the calls
SeedTick == \E delta \in FlowerDeltas :
    /\ clock + delta <= MaxClock
    /\ clock' = clock + delta
    /\ UNCHANGED <<isMobile, isLowEnd, petals, sepals, disc, stem, hairs,
                   leaves, geometryBuilds, previous>>
    /\ UNCHANGED <<locVars, heartVars, rotVars, callVars, appVars>>

\* the page is loaded again: the clock restarts
SeedRestart ==
    /\ clock > 0
    /\ clock' = 0
    /\ UNCHANGED <<isMobile, isLowEnd, petals, sepals, disc, stem, hairs,
                   leaves, geometryBuilds, previous>>
    /\ UNCHANGED <<locVars, heartVars, rotVars, callVars, appVars>>

SeedNext == SeedCall \/ SeedTick \/ SeedRestart

SpecSeed == SeedInit /\ [][SeedNext]_vars

LerpFactor(delta) == RoundDiv(DampingFactor(delta) * 8, 10)

\* v lies between a and b, ends included
Between(a, v, b) == (a <= v /\ v <= b) \/ (b <= v /\ v <= a)

\* C22: the smoothed yaw never overshoots: the interpolation factor of every
\* frame lies in [0, 0.8], the yaw a frame writes lies between the previous
\* yaw and the frame's target, so the error |yaw - target| of that frame does
\* not grow, and the yaw stays within [0, 2 pi) in every reachable state.
C22_NoOvershoot ==
    /\ [](/\ 0 <= currentRotation /\ currentRotation < TwoPi
          /\ RelativeAngle(bearing, heading) >= 0
          /\ RelativeAngle(bearing, heading) < TwoPi
          /\ \A delta \in RDeltas :
                LerpFactor(delta) >= 0 /\ 10 * LerpFactor(delta) <= 8 * S)
    /\ [][elapsed' # elapsed =>
            /\ Between(currentRotation, currentRotation',
                       RelativeAngle(bearing, heading))
            /\ Abs(currentRotation' - RelativeAngle(bearing, heading))
                 <= Abs(currentRotation - RelativeAngle(bearing, heading))]_vars

\* C22 witness: frames have moved the yaw part of the way to a target that
\* is not 0
C22_Witness ==
    /\ groupAttached /\ hasBothPositions /\ elapsed = MaxRotTime
    /\ RelativeAngle(bearing, heading) > 0
    /\ 0 < currentRotation
    /\ currentRotation < RelativeAngle(bearing, heading)

(***************************************************************************)
(* usePartnerLocation: when distance and bearing are known                 *)
(***************************************************************************)

\* C23: distance is null exactly when one of selfLat, selfLon, partnerLat,
\* partnerLon is null and is the computed distance exactly when all four are
\* known; bearing is 0 whenever distance is null. This holds after any
\* sequence of geolocation updates and presence syncs.
C23_DistanceKnownIffAllKnown ==
    /\ (distance = Null) <=>
         (selfLat = Null \/ selfLon = Null \/ partnerLat = Null
            \/ partnerLon = Null)
    /\ (selfLat # Null /\ selfLon # Null /\ partnerLat # Null
          /\ partnerLon # Null) =>
         (/\ distance = GetDistance(selfLat, selfLon, partnerLat, partnerLon)
          /\ distance >= 0)
    /\ (distance = Null) => (bearing = 0)

\* C23 witness: the own position arrived, the partner's did not, and a
\* frame has run on the unknown distance
C23_Witness ==
    /\ selfLat # Null /\ selfLon # Null /\ partnerLat = Null
    /\ distance = Null /\ elapsed > 0

(***************************************************************************)
(* useHeartbeat: the range of the scale                                    *)
(***************************************************************************)

\* the largest scale the pulse can write: 1 + (1 + 0.5) * 0.08 = 1.12
MaxScale == One + 12 * (SS \div 100)

\* C29: the heartbeat scale stays within [1, 1.12]: it starts at 1, a
\* pulsing frame writes 1 + (beat1 + beat2) * intensity with beat1 in
\* [0, 1], beat2 in [0, 0.5] and intensity in [0.03, 0.08], and an idle
\* frame never takes it below 1 or above its previous value.
C29_ScaleRange ==
    /\ [](/\ One <= scaleRef /\ scaleRef <= MaxScale
          /\ 0 <= Beat1(phase) /\ Beat1(phase) <= S
          /\ 0 <= Beat2(phase) /\ 2 * Beat2(phase) <= S
          /\ 3 * (SS \div 100) <= Intensity(distance)
          /\ Intensity(distance) <= 8 * (SS \div 100))
    /\ [][(mode' = "Pulsing" /\ timeRef' # timeRef) =>
            scaleRef' = One + RoundDiv((Beat1(phase') + Beat2(phase'))
                                         * Intensity(distance), S)]_vars
    /\ [][(mode' = "Idle" /\ idleRun' # idleRun) =>
            (One <= scaleRef' /\ scaleRef' <= scaleRef)]_vars

\* C29 witness: after a pulse near its peak the partner moved out of range
\* and idle frames are relaxing the scale, which is still above 1
C29_Witness ==
    /\ mode = "Idle" /\ idleRun >= 2
    /\ distance # Null /\ distance > MaxPulseDistance
    /\ scaleRef > One + 4 * (SS \div 100)

(***************************************************************************)
(* Frame throttling                                                        *)
(***************************************************************************)

\* the rotation a petal callback that is not skipped writes at clock time
\* ticks
PetalPose(p, ticks) ==
    LET t == ElapsedMs(ticks) + p.timeOffset
        windStrength == 14000 + p.ring * 7000
    IN  << BaseTilt(p.ring) + RandomDroop(p.randomSeed)
             + RoundDiv(Sin(RoundDiv(t * 11, 2) + p.index * 4500)
                          * windStrength, S),
           p.rotation[2],
           RandomTwist(p.randomSeed)
             + RoundDiv(Cos(t * 4 + p.index * 3500)
                          * RoundDiv(windStrength * 6, 10), S) >>

\* the frames between updates of a petal, by tier
SkipFrames == IF Tier(isMobile, isLowEnd) = "LOW" THEN 3 ELSE 2

\* what a frame of a mounted flower does to petal k
PetalThrottled(k) ==
    LET p == petals[k]
        q == petals'[k]
    IN  IF Tier(isMobile, isLowEnd) = "DESKTOP"
        THEN /\ q.rotation = PetalPose(p, clock')
             /\ q.scale \in {SetScalar(PetalS(scaleRef), p.petalLength),
                             SetScalar(PetalS(scaleRef'), p.petalLength)}
        ELSE /\ q.frameCount = p.frameCount + 1
             /\ IF q.frameCount % SkipFrames = 0
                THEN /\ q.rotation = PetalPose(p, clock')
                     /\ q.scale \in
                          {SetScalar(PetalS(scaleRef), p.petalLength),
                           SetScalar(PetalS(scaleRef'), p.petalLength)}
                ELSE q.rotation = p.rotation /\ q.scale = p.scale

\* what a frame of a mounted flower does to leaf k
LeafThrottled(k) ==
    LET l == leaves[k]
        m == leaves'[k]
        pose == << l.rotation[1], l.rotation[2],
                   l.side * 300000
                     + Sin(RoundDiv(ElapsedMs(clock') * 7, 2) + l.yPos) * 5 >>
    IN  IF Tier(isMobile, isLowEnd) = "DESKTOP"
        THEN m.rotation = pose
        ELSE /\ m.frameCount = l.frameCount + 1
             /\ IF m.frameCount % 3 = 0
                THEN m.rotation = pose
                ELSE m.rotation = l.rotation /\ m.scale = l.scale

\* what a frame of a mounted flower does to the disc
DiscThrottled ==
    LET pose == << disc.rotation[1], ElapsedMs(clock') * 12,
                   disc.rotation[3] >>
    IN  IF Tier(isMobile, isLowEnd) = "DESKTOP"
        THEN disc'.rotation = pose
        ELSE /\ disc'.frameCount = disc.frameCount + 1
             /\ IF disc'.frameCount % 2 = 0
                THEN disc'.rotation = pose
                ELSE disc'.rotation = disc.rotation

\* C28: on the mobile tiers a petal is updated only on frames where its
\* frame counter is a multiple of 2 (MOBILE) or 3 (LOW), a leaf only on every
\* 3rd frame, the disc only on every 2nd, and a skipped frame leaves the
\* mesh's rotation and scale unchanged; on DESKTOP every frame updates. The
\* heartbeat scale and the flower yaw are advanced on every frame on every
\* tier.
C28_FrameThrottle ==
    [][clock' # clock =>
         /\ petals # << >> =>
              /\ \A k \in DOMAIN petals : PetalThrottled(k)
              /\ \A k \in DOMAIN leaves : LeafThrottled(k)
              /\ DiscThrottled
         /\ scaleRef' = IF TooFar(distance) THEN Relax(scaleRef)
                        ELSE PulseScale(PhaseOf(timeRef + clock' - clock,
                                                distance), distance)
         /\ rotationY' = Smooth(currentRotation,
                                RelativeAngle(bearing, heading),
                                clock' - clock)]_vars

\* C28 witness: on a LOW device four frames ran on the mounted flower: the
\* third updated the petals and the leaves, the fourth was skipped by both
\* and updated the disc, and the yaw has moved toward the partner
C28_Witness ==
    /\ Tier(isMobile, isLowEnd) = "LOW" /\ petals # << >>
    /\ petals[1].frameCount = 4 /\ leaves[1].frameCount = 4
    /\ disc.frameCount = 4
    /\ petals[1].rotation = PetalPose(petals[1], 12)
    /\ disc.rotation[2] = ElapsedMs(clock) * 12
    /\ rotationY > 0

(***************************************************************************)
(* usePartnerLocation: the presence channel                                *)
(* Supabase is configured, so the mount effect has created the channel and *)
(* set channelRef.current; renders are batched per handler, and the        *)
(* effects of a committed render run before the next render.               *)
(***************************************************************************)

\* the own presence key and the keys of other clients on the channel
USER_ID == "self"
OtherKeys == {"k1", "k2"}
\* Object.entries(state) visits the keys in this order
KeyOrder == << USER_ID, "k1", "k2" >>

\* a presence payload; a client that tracked before it had a position left
\* null coordinates
NoPosition == [lat |-> Null, lon |-> Null]
PartnerEntries == {NoPosition, [lat |-> 0, lon |-> 500],
                   [lat |-> 0, lon |-> 1500]}
\* the presences of one key: no entry, or one or two entries (a client that
\* is connected twice under its stored id)
Presences(entries) ==
    {<< >>} \cup {<< a >> : a \in entries}
            \cup {<< a, b >> : a \in entries, b \in entries}

\* channel.presenceState() values of the sync handler
PresenceStates ==
    {[key \in {USER_ID} \cup OtherKeys |->
        IF key = USER_ID THEN own ELSE IF key = "k1" THEN p1 ELSE p2] :
     own \in {<< >>, << [lat |-> 0, lon |-> 0] >>},
     p1 \in Presences(PartnerEntries), p2 \in Presences(PartnerEntries)}

\* mutant: the own presence key is not told apart
IsAnyKey(key) == TRUE

\* key !== USER_ID
IsOtherKey(key) == key # USER_ID

\* the test of the sync handler on one key: another client's key whose
\* first presence has a position
IsPartner(state, key) ==
    /\ IsOtherKey(key)
    /\ Len(state[key]) > 0
    /\ state[key][1].lat # Null /\ state[key][1].lon # Null

\* foundPartner after the loop
FoundPartner(state) == \E key \in DOMAIN state : IsPartner(state, key)

\* the key whose position is the last one set in the loop
LastPartner(state) ==
    LET n == CHOOSE n \in DOMAIN KeyOrder :
                /\ IsPartner(state, KeyOrder[n])
                /\ \A m \in DOMAIN KeyOrder :
                      IsPartner(state, KeyOrder[m]) => m <= n
    IN  KeyOrder[n]

\* the presence 'sync' handler
PresenceSync(state) ==
    /\ presenceState' = state
    /\ IF FoundPartner(state)
       THEN /\ partnerLat' = state[LastPartner(state)][1].lat
            /\ partnerLon' = state[LastPartner(state)][1].lon
       ELSE UNCHANGED <<partnerLat, partnerLon>>
    /\ hasPartner' = FoundPartner(state)
    /\ UNCHANGED <<selfLat, selfLon>>

\* mutant: the guard of the older hook, which does not look at the position
ShouldTrackConnected(connected, lat, lon) == connected

\* channelRef.current && isConnected && selfLat != null && selfLon != null
ShouldTrack(connected, lat, lon) ==
    connected /\ lat # Null /\ lon # Null

\* the refs and the channel as the effects see them
EffectState ==
    [latRef |-> selfLatRef, lonRef |-> selfLonRef, deps |-> effectDeps,
     tracked |-> tracked, log |-> trackLog]

\* the effects of a committed render with state (lat, lon, connected): the
\* refs are synced, and the tracking effect runs when one of its
\* dependencies changed
RunEffects(e, lat, lon, connected) ==
    LET run == << lat, lon, connected >> # e.deps
                 /\ ShouldTrack(connected, lat, lon)
    IN  [latRef |-> lat, lonRef |-> lon,
         deps |-> << lat, lon, connected >>,
         tracked |-> IF run THEN << lat, lon >> ELSE e.tracked,
         log |-> IF run THEN e.log \cup {<< lat, lon >>} ELSE e.log]

\* before a new render the effects still pending from the last one run
Flushed ==
    IF effectsPending
    THEN RunEffects(EffectState, selfLat, selfLon, isConnected)
    ELSE EffectState

SetEffectState(e) ==
    /\ selfLatRef' = e.latRef /\ selfLonRef' = e.lonRef
    /\ effectDeps' = e.deps
    /\ tracked' = e.tracked /\ trackLog' = e.log

\* watchPosition callback with a new position, and the render it causes
PresGeo == \E lat \in Lats, lon \in SelfLons :
    /\ << lat, lon >> # << selfLat, selfLon >>
    /\ GeoUpdate(lat, lon)
    /\ SetEffectState(Flushed)
    /\ effectsPending' = TRUE
    /\ UNCHANGED <<isConnected, hasPartner, subscribedSeen, presenceState>>
    /\ UNCHANGED <<heartVars, rotVars, callVars, flowerVars, overlayVars,
                   orientVars, perfVars>>

ChannelStatuses == {"SUBSCRIBED", "CHANNEL_ERROR", "TIMED_OUT", "CLOSED"}

\* the subscribe callback, and the render it causes when isConnected changes
PresStatus == \E status \in ChannelStatuses :
    /\ IF status = "SUBSCRIBED"
       THEN LET lat == selfLatRef
                lon == selfLonRef
                called == lat # Null /\ lon # Null
                e == [EffectState EXCEPT
                        !.tracked = IF called THEN << lat, lon >> ELSE @,
                        !.log = IF called THEN @ \cup {<< lat, lon >>} ELSE @]
            IN  /\ subscribedSeen' = TRUE
                /\ isConnected' = TRUE
                /\ IF isConnected
                   THEN SetEffectState(e) /\ UNCHANGED effectsPending
                   ELSE /\ SetEffectState(
                             IF effectsPending
                             THEN RunEffects(e, selfLat, selfLon, isConnected)
                             ELSE e)
                        /\ effectsPending' = TRUE
       ELSE UNCHANGED <<subscribedSeen, isConnected, selfLatRef, selfLonRef,
                        effectDeps, tracked, trackLog, effectsPending>>
    /\ UNCHANGED <<hasPartner, presenceState>>
    /\ UNCHANGED <<locVars, heartVars, rotVars, callVars, flowerVars,
                   overlayVars, orientVars, perfVars>>

\* the effects of the last committed render
PresEffects ==
    /\ effectsPending
    /\ SetEffectState(RunEffects(EffectState, selfLat, selfLon, isConnected))
    /\ effectsPending' = FALSE
    /\ UNCHANGED <<isConnected, hasPartner, subscribedSeen, presenceState>>
    /\ UNCHANGED <<locVars, heartVars, rotVars, callVars, flowerVars,
                   overlayVars, orientVars, perfVars>>

\* a presence sync; while the broadcasts are followed the other clients
\* have at most one presence each
SingleStates == {st \in PresenceStates : \A key \in DOMAIN st : Len(st[key]) <= 1}

PresSync == \E state \in SingleStates :
    /\ PresenceSync(state)
    /\ UNCHANGED <<isConnected, selfLatRef, selfLonRef, effectsPending,
                   effectDeps, tracked, trackLog, subscribedSeen>>
    /\ UNCHANGED <<heartVars, rotVars, callVars, flowerVars, overlayVars,
                   orientVars, perfVars>>

PresNext == PresGeo \/ PresStatus \/ PresEffects \/ PresSync

SpecPresence == Init /\ [][PresNext]_vars

\* the effects of a committed render are not postponed forever
SpecPresenceFair == SpecPresence /\ WF_vars(PresEffects)

\* C24: channel.track is never called with a null lat or lon and never
\* before the channel reported SUBSCRIBED; and once the channel reported
\* SUBSCRIBED and an own position is known, in whichever order, the most
\* recent own position is eventually passed to track, and again after every
\* later change of the own position.
C24_Broadcast ==
    /\ [](\A payload \in trackLog : payload[1] # Null /\ payload[2] # Null)
    /\ [](tracked # << >> => (tracked \in trackLog /\ subscribedSeen))
    /\ [](trackLog # {} => subscribedSeen)
    /\ (subscribedSeen /\ selfLat # Null /\ selfLon # Null)
          ~> (tracked = << selfLat, selfLon >>)

\* C24 witness: the position arrived before SUBSCRIBED, changed afterwards,
\* and both positions were broadcast, the later one last
C24_Witness ==
    /\ subscribedSeen /\ ~effectsPending
    /\ trackLog = {<< 0, 0 >>, << 0, 500 >>}
    /\ selfLon = 500 /\ tracked = << selfLat, selfLon >>

(***************************************************************************)
(* usePartnerLocation: what a presence sync finds                          *)
(***************************************************************************)

\* a presence sync with any of the modelled presence states
SyncAll == \E state \in PresenceStates :
    /\ PresenceSync(state)
    /\ UNCHANGED <<isConnected, selfLatRef, selfLonRef, effectsPending,
                   effectDeps, tracked, trackLog, subscribedSeen>>
    /\ UNCHANGED <<heartVars, rotVars, callVars, flowerVars, overlayVars,
                   orientVars, perfVars>>

SyncNext == PresGeo \/ PresEffects \/ SyncAll

SpecSync == Init /\ [][SyncNext]_vars

\* a payload with a position
HasPosition(p) == p.lat # Null /\ p.lon # Null

\* C25 as stated: hasPartner is true exactly when some key other than the
\* own USER_ID has an entry with non-null lat and lon.
C25_AnyEntry ==
    hasPartner <=>
      \E key \in DOMAIN presenceState \ {USER_ID} :
         \E n \in DOMAIN presenceState[key] :
            HasPosition(presenceState[key][n])

\* C25: a presence sync sets hasPartner to true exactly when some key other
\* than the own USER_ID has a first entry with non-null lat and lon, and
\* then stores the position of such a first entry; a sync that finds none
\* sets hasPartner to false and leaves partnerLat, partnerLon, and so
\* distance and bearing, at their last values.
C25_FirstEntry ==
    /\ [](hasPartner <=>
            \E key \in DOMAIN presenceState \ {USER_ID} :
               /\ Len(presenceState[key]) > 0
               /\ HasPosition(presenceState[key][1]))
    /\ [][presenceState' # presenceState =>
            IF hasPartner'
            THEN \E key \in DOMAIN presenceState' \ {USER_ID} :
                    /\ Len(presenceState'[key]) > 0
                    /\ HasPosition(presenceState'[key][1])
                    /\ partnerLat' = presenceState'[key][1].lat
                    /\ partnerLon' = presenceState'[key][1].lon
            ELSE /\ UNCHANGED <<partnerLat, partnerLon>>
                 /\ distance' = distance /\ bearing' = bearing]_vars

\* C25 witness: after a partner was found, a sync in which the own key has a
\* position and the only other client's first entry has none found no
\* partner, and the distance is still the one computed before
C25_Witness ==
    /\ ~hasPartner
    /\ presenceState = [key \in {USER_ID} \cup OtherKeys |->
                          IF key = USER_ID THEN << [lat |-> 0, lon |-> 0] >>
                          ELSE IF key = "k1"
                               THEN << NoPosition, [lat |-> 0, lon |-> 500] >>
                               ELSE << >>]
    /\ partnerLon = 1500 /\ distance = 1500

(***************************************************************************)
(* TypographyOverlay and the orientation permission                        *)
(* Time is in milliseconds; a timer fires when it is due: time does not    *)
(* pass a pending timer.                                                   *)
(***************************************************************************)

\* setTimeout(() => setVisible(false), 3000) of handleInteraction
HideDelay == 3000
\* setTimeout(() => setVisible(false), 4000) of the mount effect
FirstHideDelay == 4000

\* the overlay is followed for MaxOverlaySteps half seconds and
\* MaxPointerdowns pointerdown events
MaxOverlaySteps == 16
MaxPointerdowns == 3
OverlayTimes == {500 * k : k \in 0 .. MaxOverlaySteps}

\* mutant: a clearTimeout that cancels nothing
ClearTimeoutNone(pending, id) == pending

\* clearTimeout(id); an id that is not pending is ignored
ClearTimeout(pending, id) == {t \in pending : t.id # id}

\* mutant: the request hook stays in place after its call
HookKept == TRUE

\* window.__requestOrientationPermission = null
HookCleared == FALSE

\* the overlay after its mount effect: the first hide timer is pending and
\* the pointerdown listener is registered; the platform has
\* DeviceOrientationEvent, with or without requestPermission
OverlayMounted ==
    /\ LocInit /\ HeartInit /\ RotInit /\ CallInit /\ FlowerInit
    /\ PresInit /\ PerfInit
    /\ visible = TRUE
    /\ timerRef = 1 /\ timers = {[id |-> 1, due |-> FirstHideDelay]}
    /\ now = 0 /\ lastPointer = Null /\ timerCount = 1
    /\ orientMounted = FALSE /\ needsPermission \in BOOLEAN
    /\ requestHook = FALSE /\ permission = "notAsked"
    /\ listenerAttached = FALSE /\ requestCount = 0

\* handleInteraction, the pointerdown listener
HandleInteraction ==
    /\ timerCount <= MaxPointerdowns
    /\ visible' = TRUE
    /\ IF requestHook
       THEN /\ requestCount' = requestCount + 1
            /\ permission' = "pending"
            /\ requestHook' = HookCleared
       ELSE UNCHANGED <<requestCount, permission, requestHook>>
    /\ timerCount' = timerCount + 1
    /\ timerRef' = timerCount'
    /\ timers' = ClearTimeout(timers, timerRef)
                   \cup {[id |-> timerCount', due |-> now + HideDelay]}
    /\ lastPointer' = now
    /\ UNCHANGED <<now, orientMounted, needsPermission, listenerAttached>>
    /\ UNCHANGED <<locVars, heartVars, rotVars, callVars, flowerVars,
                   presVars, perfVars>>

\* a hide timer fires: setVisible(false)
TimerFires == \E t \in timers :
    /\ t.due <= now
    /\ visible' = FALSE
    /\ timers' = timers \ {t}
    /\ UNCHANGED <<timerRef, now, lastPointer, timerCount>>
    /\ UNCHANGED <<locVars, heartVars, rotVars, callVars, flowerVars,
                   presVars, orientVars, perfVars>>

\* time passes, up to the next pending timer
TimePasses == \E later \in OverlayTimes :
    /\ later > now
    /\ \A t \in timers : later <= t.due
    /\ now' = later
    /\ UNCHANGED <<visible, timerRef, timers, lastPointer, timerCount>>
    /\ UNCHANGED <<locVars, heartVars, rotVars, callVars, flowerVars,
                   presVars, orientVars, perfVars>>

\* the effect of useDeviceOrientation on a platform with
\* DeviceOrientationEvent
OrientMount ==
    /\ ~orientMounted
    /\ orientMounted' = TRUE
    /\ IF needsPermission
       THEN requestHook' = TRUE /\ UNCHANGED listenerAttached
       ELSE listenerAttached' = TRUE /\ UNCHANGED requestHook
    /\ UNCHANGED <<needsPermission, permission, requestCount>>
    /\ UNCHANGED <<locVars, heartVars, rotVars, callVars, flowerVars,
                   presVars, overlayVars, perfVars>>

\* DeviceOrientationEvent.requestPermission() settles: it resolves to
\* 'granted' or 'denied', or rejects
PermissionResults == {"granted", "denied", "failed"}

PermissionSettles == \E res \in PermissionResults :
    /\ permission = "pending"
    /\ permission' = res
    /\ listenerAttached' = (listenerAttached \/ res = "granted")
    /\ UNCHANGED <<orientMounted, needsPermission, requestHook, requestCount>>
    /\ UNCHANGED <<locVars, heartVars, rotVars, callVars, flowerVars,
                   presVars, overlayVars, perfVars>>

\* a deviceorientation event reaches the registered listener
OrientationEvent == \E w \in CompassHeadings, a \in Alphas :
    /\ listenerAttached
    /\ HandleOrientation(w, a)
    /\ UNCHANGED <<groupAttached, currentRotation, rotationY, elapsed,
                   fixedDelta, halfRotation>>
    /\ UNCHANGED <<locVars, heartVars, callVars, flowerVars, appVars>>

OverlayNext ==
    \/ HandleInteraction \/ TimerFires \/ TimePasses
    \/ OrientMount \/ PermissionSettles \/ OrientationEvent

SpecOverlay == OverlayMounted /\ [][OverlayNext]_vars

\* the time at which the overlay is due to hide
HideDue == IF lastPointer = Null THEN FirstHideDelay
           ELSE lastPointer + HideDelay

\* C26: the overlay is visible at mount and hidden 4000 ms later if no
\* pointerdown occurs; every pointerdown makes it visible and replaces the
\* pending hide timer by one of 3000 ms, so at most one hide timer is
\* pending at any time, the overlay is never hidden earlier than 3000 ms
\* after the most recent pointerdown, and is hidden 3000 ms after the last.
C26_OverlayTimer ==
    /\ [](/\ Cardinality(timers) <= 1
          /\ \A t \in timers :
                t.id = timerRef /\ t.due = HideDue /\ now <= t.due
          /\ visible <=> timers # {}
          /\ ~visible => now >= HideDue
          /\ now > HideDue => ~visible)
    /\ [][timerCount' # timerCount =>
            /\ visible'
            /\ lastPointer' = now
            /\ timers' = {[id |-> timerRef', due |-> now + HideDelay]}]_vars

\* C26 witness: the first timer hid the overlay, a later pointerdown showed
\* it again, and it was hidden again 3000 ms after that pointerdown
C26_Witness ==
    /\ ~visible /\ lastPointer # Null /\ lastPointer > FirstHideDelay
    /\ now = lastPointer + HideDelay /\ timers = {}

\* C30: where orientation access requires permission, the listener is
\* attached only after the request resolved to 'granted'; the request is
\* issued at most once, by a pointerdown, which clears the request hook; a
\* denied or failed request is never retried and the heading then stays 0.
C30_PermissionOnce ==
    /\ [](needsPermission =>
            /\ listenerAttached => permission = "granted"
            /\ requestCount <= 1
            /\ requestCount = 1 => ~requestHook
            /\ permission \in {"denied", "failed"} =>
                 (heading = 0 /\ ~listenerAttached /\ ~requestHook))
    /\ [][requestCount' # requestCount =>
            (timerCount' # timerCount /\ requestHook /\ ~requestHook')]_vars
    /\ [][(permission = "denied" \/ permission = "failed") =>
            UNCHANGED <<permission, requestCount, heading>>]_vars

\* C30 witness: the request was denied and a later pointerdown came
C30_Witness ==
    /\ needsPermission /\ permission = "denied" /\ requestCount = 1
    /\ timerCount = MaxPointerdowns + 1 /\ lastPointer > 0
    /\ heading = 0 /\ ~listenerAttached

(***************************************************************************)
(* PerformanceMonitor                                                      *)
(* Timestamps are in milliseconds, pixel ratios in hundredths.             *)
(***************************************************************************)

\* while (frameTimes.length > 60) frameTimes.shift()
WindowSize == 60
\* if (frameTimes.length < 30) return
MinSamples == 30
\* if (avgFps < 20)
LowFps == 20
\* if (lowFpsCountRef.current > 3)
LowFpsLimit == 3

\* the monitor is followed for MaxPerfFrames frames
MaxPerfFrames == 70
\* times between frames: 62.5, 20 and 15.6 frames per second
FrameIntervals == {16, 50, 64}
\* the pixel ratios the canvas starts with (dpr = [1, safeDpr], safeDpr at
\* most 1.5 on the devices that mount the monitor)
StartRatios == {100, 110, 150}

RECURSIVE Shifted(_)
\* frameTimes after the while loop
Shifted(w) == IF Len(w) > WindowSize THEN Shifted(Tail(w)) ELSE w

\* frameTimes.push(now) and the trimming
Window(w, t) == Shifted(Append(w, t))

\* avgFps < 20, avgFps = ((length - 1) / elapsed) * 1000; elapsed is
\* positive for the window's 30 or more frames
AvgFpsLow(w) == (Len(w) - 1) * 1000 < LowFps * (w[Len(w)] - w[1])

\* mutant: the lowered ratio without its floor
NewDprUnclamped(currentDpr) == currentDpr - 25

\* Math.max(1, currentDpr - 0.25)
NewDpr(currentDpr) == Max(100, currentDpr - 25)

\* the useFrame callback of PerformanceMonitor at performance.now() = t
MonitorFrame(t) ==
    LET w == Window(frameTimes, t)
    IN  IF Len(w) < MinSamples
        THEN /\ frameTimes' = w
             /\ UNCHANGED <<lowFpsCount, pixelRatio>>
        ELSE IF AvgFpsLow(w)
        THEN IF lowFpsCount + 1 > LowFpsLimit /\ pixelRatio > 100
             THEN /\ pixelRatio' = NewDpr(pixelRatio)
                  /\ lowFpsCount' = 0
                  /\ frameTimes' = << >>
             ELSE /\ lowFpsCount' = lowFpsCount + 1
                  /\ frameTimes' = w
                  /\ UNCHANGED pixelRatio
        ELSE /\ lowFpsCount' = Max(0, lowFpsCount - 1)
             /\ frameTimes' = w
             /\ UNCHANGED pixelRatio

\* the monitor on a mobile device, before its first frame
MonitorInit ==
    /\ LocInit /\ HeartInit /\ RotInit /\ CallInit
    /\ isMobile = TRUE /\ isLowEnd \in BOOLEAN
    /\ petals = << >> /\ sepals = << >> /\ leaves = << >> /\ hairs = << >>
    /\ disc = << >> /\ stem = << >>
    /\ clock = 0 /\ geometryBuilds = 0 /\ previous = << >>
    /\ PresInit /\ OverlayInit /\ OrientInit
    /\ frameTimes = << >> /\ lowFpsCount = 0
    /\ pixelRatio \in StartRatios
    /\ perfNow = 0 /\ frameInterval \in FrameIntervals
    /\ intervalChanged = FALSE /\ perfFrames = 0

\* the next frame
MonitorTick ==
    /\ perfFrames < MaxPerfFrames
    /\ perfNow' = perfNow + frameInterval
    /\ perfFrames' = perfFrames + 1
    /\ MonitorFrame(perfNow')
    /\ UNCHANGED <<frameInterval, intervalChanged>>
    /\ UNCHANGED <<locVars, heartVars, rotVars, callVars, flowerVars,
                   presVars, overlayVars, orientVars>>

\* the load changes: frames come at another rate from now on
LoadChanges == \E interval \in FrameIntervals :
    /\ ~intervalChanged /\ interval # frameInterval
    /\ frameInterval' = interval
    /\ intervalChanged' = TRUE
    /\ UNCHANGED <<frameTimes, lowFpsCount, pixelRatio, perfNow, perfFrames>>
    /\ UNCHANGED <<locVars, heartVars, rotVars, callVars, flowerVars,
                   presVars, overlayVars, orientVars>>

MonitorNext == MonitorTick \/ LoadChanges

SpecMonitor == MonitorInit /\ [][MonitorNext]_vars

\* C27: PerformanceMonitor only ever lowers the pixel ratio: a change
\* happens only on a frame where at least 30 timestamps are in the window,
\* the average FPS is below 20 and the low-FPS counter exceeds 3; it lowers
\* the ratio by at most 0.25 and never below 1, and resets the window and
\* the counter; the window holds at most 60 timestamps and the counter is
\* never negative.
C27_OnlyLowers ==
    /\ [](Len(frameTimes) <= WindowSize /\ lowFpsCount >= 0)
    /\ [][pixelRatio' <= pixelRatio]_vars
    /\ [][pixelRatio' # pixelRatio =>
            /\ Len(Window(frameTimes, perfNow')) >= MinSamples
            /\ AvgFpsLow(Window(frameTimes, perfNow'))
            /\ lowFpsCount + 1 > LowFpsLimit
            /\ pixelRatio - pixelRatio' <= 25
            /\ pixelRatio' >= 100
            /\ frameTimes' = << >> /\ lowFpsCount' = 0]_vars

\* C27 witness: two reductions have taken the ratio from 1.5 to 1, the
\* second one just now
C27_Witness ==
    /\ pixelRatio = 100 /\ frameTimes = << >> /\ lowFpsCount = 0
    /\ perfFrames >= 2 * (MinSamples + LowFpsLimit)

====
